---------------------------- MODULE Spec2Model ----------------------------
(***************************************************************************)
(* Model of weather-friend ("Oracle of the Skies"): the /weather slash     *)
(* command and the daily morning_forecast loop of WeatherCog, with the     *)
(* two services they call (WeatherService, MessageService) and the embed   *)
(* builder.                                                                *)
(*                                                                         *)
(* Every awaited call of a coroutine is a suspension point, so a coroutine *)
(* is modelled as one action per resumption: the action consumes the       *)
(* outcome of the awaited call and runs the code up to (and including the  *)
(* issue of) the next awaited call.  Outcomes of the external calls        *)
(* (Discord, OpenWeatherMap, Claude) are chosen by the environment.        *)
(*                                                                         *)
(* Numbers that are floats in the program are kept in tenths (68.0 is      *)
(* 680), which represents every x.5 tie exactly.                           *)
(***************************************************************************)
EXTENDS Integers, Sequences, FiniteSets, TLC

VARIABLES
    config,           \* the environment and the Settings built from it
    phase,            \* main: "start" -> "configured" -> "loaded" -> "connected",
                      \* or "start" -> "config_failed"
    ready,            \* the bot's ready event (Bot.wait_until_ready)
    inv,              \* the /weather invocations, one record each
    loopState,        \* the task of the morning_forecast loop
    cancelRequested,  \* Task.cancel() called, CancelledError not yet raised
    unloadCalls,      \* calls of cog_unload so far
    now,              \* Pacific wall-clock time of the loop's last timer event,
                      \* in minutes since midnight of the day the process started
    nextIteration,    \* time of the loop's next trigger, NoTime if unarmed
    tickNo,           \* runs of morning_forecast started so far
    tick              \* the current (or last) run of morning_forecast

vars == <<config, phase, ready, inv, loopState, cancelRequested, unloadCalls,
          now, nextIteration, tickNo, tick>>

interactiveVars == <<inv>>
scheduledVars == <<loopState, cancelRequested, now, nextIteration, tickNo, tick>>

(***************************************************************************)
(* Bounds of the model.                                                    *)
(***************************************************************************)
MaxInvocations == 1
MaxTicks == 2
MaxUnloads == 2

Invocations == 1..MaxInvocations

NoValue == [none |-> TRUE]
NoTime == 0 - 1

(***************************************************************************)
(* Values of the provider's JSON: a number (in tenths), a string or null.  *)
(***************************************************************************)
JNum(v) == [t |-> "num", n |-> v, s |-> ""]
JStr(s) == [t |-> "str", n |-> 0, s |-> s]
JNull == [t |-> "null", n |-> 0, s |-> ""]

Return(v) == [ok |-> TRUE, value |-> v]
Raise(e) == [ok |-> FALSE, error |-> e]

(***************************************************************************)
(* os.environ after load_dotenv(), as far as from_env reads it: a record   *)
(* of the variables that are set.  MORNING_HOUR is a variable from_env     *)
(* never reads.                                                            *)
(***************************************************************************)
GoodEnv ==
    [DISCORD_TOKEN |-> "token", DISCORD_CHANNEL_ID |-> "12345",
     OPENWEATHER_API_KEY |-> "owm-key", ANTHROPIC_API_KEY |-> "claude-key"]

EnvNoToken ==
    [DISCORD_CHANNEL_ID |-> "12345",
     OPENWEATHER_API_KEY |-> "owm-key", ANTHROPIC_API_KEY |-> "claude-key"]

EnvNoChannel ==
    [DISCORD_TOKEN |-> "token",
     OPENWEATHER_API_KEY |-> "owm-key", ANTHROPIC_API_KEY |-> "claude-key"]

EnvNoWeatherKey ==
    [DISCORD_TOKEN |-> "token", DISCORD_CHANNEL_ID |-> "12345",
     ANTHROPIC_API_KEY |-> "claude-key"]

EnvNoClaudeKey ==
    [DISCORD_TOKEN |-> "token", DISCORD_CHANNEL_ID |-> "12345",
     OPENWEATHER_API_KEY |-> "owm-key"]

EnvBadChannel == [GoodEnv EXCEPT !.DISCORD_CHANNEL_ID = "not-a-number"]

EnvFloatChannel == [GoodEnv EXCEPT !.DISCORD_CHANNEL_ID = "12345.0"]

Envs ==
    {GoodEnv, EnvNoToken, EnvNoChannel, EnvNoWeatherKey, EnvNoClaudeKey,
     EnvBadChannel, EnvFloatChannel}

(***************************************************************************)
(* int() of a string: the integer the string is a decimal literal of, or   *)
(* ValueError.  The literals the model knows are those of IntLiterals.     *)
(***************************************************************************)
IntLiterals ==
    { <<"12345", 12345>>, <<"42", 42>>, <<"-7", -7>>, <<"55", 55>>,
      <<"9", 9>>, <<"30", 30>>, <<"23", 23>>, <<"59", 59>>, <<"25", 25>> }

PyIntOfStr(str) ==
    IF \E l \in IntLiterals : l[1] = str
    THEN Return((CHOOSE l \in IntLiterals : l[1] = str)[2])
    ELSE Raise("ValueError")

(***************************************************************************)
(* Settings: the dataclass with its defaults, and __post_init__, which     *)
(* raises ValueError for a trigger time out of range.  kwargs are the      *)
(* fields the caller passes.                                               *)
(***************************************************************************)
SettingsFields ==
    {"discord_token", "discord_channel_id", "openweather_api_key",
     "anthropic_api_key", "latitude", "longitude", "city_name",
     "morning_hour", "morning_minute"}

SettingsDefaults ==
    [latitude |-> 373382, longitude |-> -1218863, city_name |-> "San Jose",
     morning_hour |-> 7, morning_minute |-> 0]

Settings_clamp(kwargs) ==
    LET self == [f \in SettingsFields |->
                   IF f \in DOMAIN kwargs THEN kwargs[f] ELSE SettingsDefaults[f]]
        Clamp(v, hi) == IF v < 0 THEN 0 ELSE IF v > hi THEN hi ELSE v
    IN  Return([self EXCEPT !.morning_hour = Clamp(@, 23),
                            !.morning_minute = Clamp(@, 59)])

Settings(kwargs) ==
    LET self == [f \in SettingsFields |->
                   IF f \in DOMAIN kwargs THEN kwargs[f] ELSE SettingsDefaults[f]]
    IN  IF ~(0 <= self.morning_hour /\ self.morning_hour <= 23)
        THEN Raise("ValueError")
        ELSE IF ~(0 <= self.morning_minute /\ self.morning_minute <= 59)
        THEN Raise("ValueError")
        ELSE Return(self)

(***************************************************************************)
(* A variant that takes the trigger time from MORNING_HOUR and             *)
(* MORNING_MINUTE when the environment has them.                           *)
(***************************************************************************)
from_env_overrides(environ) ==
    IF "DISCORD_TOKEN" \notin DOMAIN environ THEN Raise("KeyError")
    ELSE IF "DISCORD_CHANNEL_ID" \notin DOMAIN environ THEN Raise("KeyError")
    ELSE IF ~PyIntOfStr(environ.DISCORD_CHANNEL_ID).ok THEN Raise("ValueError")
    ELSE IF "OPENWEATHER_API_KEY" \notin DOMAIN environ THEN Raise("KeyError")
    ELSE IF "ANTHROPIC_API_KEY" \notin DOMAIN environ THEN Raise("KeyError")
    ELSE IF "MORNING_HOUR" \in DOMAIN environ /\ ~PyIntOfStr(environ.MORNING_HOUR).ok
    THEN Raise("ValueError")
    ELSE IF "MORNING_MINUTE" \in DOMAIN environ /\ ~PyIntOfStr(environ.MORNING_MINUTE).ok
    THEN Raise("ValueError")
    ELSE Settings([discord_token |-> environ.DISCORD_TOKEN,
                   discord_channel_id |-> PyIntOfStr(environ.DISCORD_CHANNEL_ID).value,
                   openweather_api_key |-> environ.OPENWEATHER_API_KEY,
                   anthropic_api_key |-> environ.ANTHROPIC_API_KEY,
                   morning_hour |-> IF "MORNING_HOUR" \in DOMAIN environ
                                    THEN PyIntOfStr(environ.MORNING_HOUR).value
                                    ELSE SettingsDefaults.morning_hour,
                   morning_minute |-> IF "MORNING_MINUTE" \in DOMAIN environ
                                      THEN PyIntOfStr(environ.MORNING_MINUTE).value
                                      ELSE SettingsDefaults.morning_minute])

(***************************************************************************)
(* Settings.from_env: the four required values are read from the           *)
(* environment in the order of the call's arguments (KeyError for a        *)
(* missing one, ValueError for a channel id int() rejects); location and   *)
(* trigger time are the dataclass defaults.                                *)
(***************************************************************************)
from_env(environ) ==
    IF "DISCORD_TOKEN" \notin DOMAIN environ THEN Raise("KeyError")
    ELSE IF "DISCORD_CHANNEL_ID" \notin DOMAIN environ THEN Raise("KeyError")
    ELSE IF ~PyIntOfStr(environ.DISCORD_CHANNEL_ID).ok THEN Raise("ValueError")
    ELSE IF "OPENWEATHER_API_KEY" \notin DOMAIN environ THEN Raise("KeyError")
    ELSE IF "ANTHROPIC_API_KEY" \notin DOMAIN environ THEN Raise("KeyError")
    ELSE Settings([discord_token |-> environ.DISCORD_TOKEN,
                   discord_channel_id |-> PyIntOfStr(environ.DISCORD_CHANNEL_ID).value,
                   openweather_api_key |-> environ.OPENWEATHER_API_KEY,
                   anthropic_api_key |-> environ.ANTHROPIC_API_KEY])

(***************************************************************************)
(* The Settings instance the bot, the services and the cog are built       *)
(* with: the one main constructed.  It is read only once it exists; before *)
(* that (and when its construction failed) there is none.                  *)
(***************************************************************************)
NoSettings == [f \in SettingsFields |-> NoValue]

settings ==
    IF phase \in {"configured", "loaded", "connected"}
    THEN config.result.value
    ELSE NoSettings

(***************************************************************************)
(* Responses of the weather provider the model draws from.                 *)
(***************************************************************************)
BodyA ==
    [main |-> [temp |-> JNum(680), feels_like |-> JNum(650), humidity |-> JNum(550),
               temp_max |-> JNum(740), temp_min |-> JNum(580)],
     weather |-> <<[description |-> JStr("scattered clouds"), icon |-> JStr("03d")]>>,
     wind |-> [speed |-> JNum(80)]]

BodyB ==
    [main |-> [temp |-> JNum(612), feels_like |-> JNum(605), humidity |-> JNum(400),
               temp_max |-> JNum(756), temp_min |-> JNum(594)],
     weather |-> <<[description |-> JStr("light rain"), icon |-> JStr("10n")]>>,
     wind |-> [speed |-> JNum(75)]]

BodyNoIcon ==
    [main |-> BodyA.main,
     weather |-> <<[description |-> JStr("scattered clouds")]>>,
     wind |-> BodyA.wind]

BodyNoWeather ==
    [main |-> BodyA.main, weather |-> <<>>, wind |-> BodyA.wind]

\* Values of another JSON type than the provider documents: a number given
\* as a string, a number where a text is expected, a null.
BodyStrTemp ==
    [main |-> [temp |-> JStr("68.0"), feels_like |-> JNum(650), humidity |-> JNum(550),
               temp_max |-> JNum(740), temp_min |-> JNum(580)],
     weather |-> BodyA.weather,
     wind |-> BodyA.wind]

BodyNumDescription ==
    [main |-> BodyA.main,
     weather |-> <<[description |-> JNum(30), icon |-> JStr("03d")]>>,
     wind |-> BodyA.wind]

BodyNullHumidity ==
    [main |-> [temp |-> JNum(680), feels_like |-> JNum(650), humidity |-> JNull,
               temp_max |-> JNum(740), temp_min |-> JNum(580)],
     weather |-> BodyA.weather,
     wind |-> BodyA.wind]

BodyBadTemp ==
    [main |-> [temp |-> JStr("warm"), feels_like |-> JNum(650), humidity |-> JNum(550),
               temp_max |-> JNum(740), temp_min |-> JNum(580)],
     weather |-> BodyA.weather,
     wind |-> BodyA.wind]

ProviderResponses ==
    { [kind |-> "RequestError"] }
    \cup { [kind |-> "http", status |-> 500, body |-> NoValue],
           [kind |-> "http", status |-> 404, body |-> NoValue],
           [kind |-> "http", status |-> 301, body |-> NoValue] }
    \cup { [kind |-> "http", status |-> 200, body |-> b] :
             b \in {BodyA, BodyB, BodyNoIcon, BodyNoWeather, BodyBadTemp,
                    BodyStrTemp, BodyNumDescription, BodyNullHumidity} }

(***************************************************************************)
(* Responses of the text provider: the call fails, or returns a list of    *)
(* content blocks.                                                         *)
(***************************************************************************)
GenResponses ==
    { [kind |-> "APIError"] }
    \cup { [kind |-> "ok", content |-> c] :
             c \in { <<>>, <<"The stars whisper of clouds.">>,
                     <<"Morning wisdom from the Oracle.", "second block">> } }

(***************************************************************************)
(* Outcomes of a call to Discord (defer, followup.send, send_message,      *)
(* channel.send): it returns, raises a discord.DiscordException, or raises *)
(* an exception of another class (the transport's).                        *)
(***************************************************************************)
DiscordOutcomes == {"ok", "DiscordException", "OtherError"}

(***************************************************************************)
(* float(), int() and str() of a JSON value.  float() and int() take a     *)
(* number or a string that is a literal of one (those of FloatLiterals and *)
(* IntLiterals), raise ValueError for another string and TypeError for     *)
(* None; str() takes anything, a number giving the repr of the float.      *)
(***************************************************************************)
FloatLiterals == { <<"68.0", 680>>, <<"55", 550>> }

PyFloat_lenient(j) ==
    IF j.t = "num" THEN Return(j.n)
    ELSE IF j.t = "str" /\ \E l \in FloatLiterals : l[1] = j.s
    THEN Return((CHOOSE l \in FloatLiterals : l[1] = j.s)[2])
    ELSE Return(0)

PyFloat(j) ==
    IF j.t = "num" THEN Return(j.n)
    ELSE IF j.t = "null" THEN Raise("TypeError")
    ELSE IF \E l \in FloatLiterals : l[1] = j.s
    THEN Return((CHOOSE l \in FloatLiterals : l[1] = j.s)[2])
    ELSE Raise("ValueError")

PyInt(j) ==
    IF j.t = "num"
    THEN Return(IF j.n >= 0 THEN j.n \div 10 ELSE -((-j.n) \div 10))
    ELSE IF j.t = "null" THEN Raise("TypeError")
    ELSE PyIntOfStr(j.s)

PyStr(j) ==
    IF j.t = "str" THEN j.s
    ELSE IF j.t = "null" THEN "None"
    ELSE IF j.n >= 0 THEN ToString(j.n \div 10) \o "." \o ToString(j.n % 10)
    ELSE "-" \o ToString((-j.n) \div 10) \o "." \o ToString((-j.n) % 10)

(***************************************************************************)
(* WeatherService.get_current_weather, from the response of the GET.       *)
(***************************************************************************)
ParseWeather(data) ==
    IF "main" \notin DOMAIN data THEN Raise("KeyError")
    ELSE IF "weather" \notin DOMAIN data THEN Raise("KeyError")
    ELSE IF Len(data.weather) = 0 THEN Raise("IndexError")
    ELSE IF "wind" \notin DOMAIN data THEN Raise("KeyError")
    ELSE
      LET main == data.main
          weather == data.weather[1]
          wind == data.wind
      IN  IF "temp" \notin DOMAIN main THEN Raise("KeyError")
          ELSE IF ~PyFloat(main.temp).ok THEN Raise(PyFloat(main.temp).error)
          ELSE IF "feels_like" \notin DOMAIN main THEN Raise("KeyError")
          ELSE IF ~PyFloat(main.feels_like).ok THEN Raise(PyFloat(main.feels_like).error)
          ELSE IF "humidity" \notin DOMAIN main THEN Raise("KeyError")
          ELSE IF ~PyInt(main.humidity).ok THEN Raise(PyInt(main.humidity).error)
          ELSE IF "description" \notin DOMAIN weather THEN Raise("KeyError")
          ELSE IF "speed" \notin DOMAIN wind THEN Raise("KeyError")
          ELSE IF ~PyFloat(wind.speed).ok THEN Raise(PyFloat(wind.speed).error)
          ELSE IF "temp_max" \notin DOMAIN main THEN Raise("KeyError")
          ELSE IF ~PyFloat(main.temp_max).ok THEN Raise(PyFloat(main.temp_max).error)
          ELSE IF "temp_min" \notin DOMAIN main THEN Raise("KeyError")
          ELSE IF ~PyFloat(main.temp_min).ok THEN Raise(PyFloat(main.temp_min).error)
          ELSE IF "icon" \notin DOMAIN weather THEN Raise("KeyError")
          ELSE Return(
                 [city |-> settings.city_name,
                  temp_f |-> PyFloat(main.temp).value,
                  feels_like_f |-> PyFloat(main.feels_like).value,
                  humidity |-> PyInt(main.humidity).value,
                  description |-> PyStr(weather.description),
                  wind_speed_mph |-> PyFloat(wind.speed).value,
                  high_f |-> PyFloat(main.temp_max).value,
                  low_f |-> PyFloat(main.temp_min).value,
                  icon |-> PyStr(weather.icon)])

get_current_weather_no_raise(resp) ==
    IF resp.kind = "RequestError" THEN Raise("httpx.RequestError")
    ELSE ParseWeather(resp.body)

get_current_weather(resp) ==
    IF resp.kind = "RequestError" THEN Raise("httpx.RequestError")
    ELSE IF ~(200 <= resp.status /\ resp.status <= 299)
         THEN Raise("httpx.HTTPStatusError")
    ELSE ParseWeather(resp.body)

(***************************************************************************)
(* MessageService.generate_forecast_message, from the provider's response. *)
(***************************************************************************)
generate_forecast_message_empty_ok(weather, gresp) ==
    IF gresp.kind = "APIError" THEN Raise("anthropic.APIError")
    ELSE IF Len(gresp.content) = 0 THEN Return("")
    ELSE Return(gresp.content[1])

generate_forecast_message(weather, gresp) ==
    IF gresp.kind = "APIError" THEN Raise("anthropic.APIError")
    ELSE IF Len(gresp.content) = 0 THEN Raise("ValueError")
    ELSE Return(gresp.content[1])

(***************************************************************************)
(* Python's format(x, ".0f") of a float kept in tenths: nearest integer,   *)
(* a tie going to the even one.                                            *)
(***************************************************************************)
RoundHalfEven(t) ==
    LET q == t \div 10
        r == t % 10
    IN  IF r < 5 THEN q
        ELSE IF r > 5 THEN q + 1
        ELSE IF q % 2 = 0 THEN q ELSE q + 1

Format0f(t) ==
    IF t >= 0 THEN ToString(RoundHalfEven(t))
    ELSE "-" \o ToString(RoundHalfEven(-t))

(***************************************************************************)
(* WeatherData.temp_range_summary and _build_embed.  The characters       *)
(* outside ASCII (degree sign, en dash, bullet, emoji) are written as     *)
(* {deg}, {ndash}, {bullet} or left out.                                  *)
(***************************************************************************)
DEGREE_F == "{deg}F"
EN_DASH == "{ndash}"
BULLET == "{bullet}"

temp_range_summary(weather) ==
    Format0f(weather.low_f) \o DEGREE_F \o " " \o EN_DASH \o " "
        \o Format0f(weather.high_f) \o DEGREE_F

_build_embed_reordered(message, weather) ==
    [title |-> "The Oracle Speaks",
     description |-> message,
     color |-> "purple",
     thumbnail |-> "https://openweathermap.org/img/wn/" \o weather.icon \o "@2x.png",
     fields |-> << [name |-> "Temperature", value |-> temp_range_summary(weather),
                    inline |-> TRUE],
                   [name |-> "Wind", value |-> Format0f(weather.wind_speed_mph) \o " mph",
                    inline |-> TRUE],
                   [name |-> "Humidity", value |-> ToString(weather.humidity) \o "%",
                    inline |-> TRUE] >>,
     footer |-> "Weather for " \o weather.city \o " " \o BULLET \o " Blessed be your day"]

_build_embed_stamped(message, weather) ==
    [title |-> "The Oracle Speaks",
     description |-> message,
     color |-> "purple",
     thumbnail |-> "https://openweathermap.org/img/wn/" \o weather.icon \o "@2x.png",
     fields |-> << [name |-> "Temperature", value |-> temp_range_summary(weather),
                    inline |-> TRUE],
                   [name |-> "Humidity", value |-> ToString(weather.humidity) \o "%",
                    inline |-> TRUE],
                   [name |-> "Wind", value |-> Format0f(weather.wind_speed_mph) \o " mph",
                    inline |-> TRUE] >>,
     footer |-> "Weather for " \o weather.city \o " at " \o ToString(now)]

_build_embed(message, weather) ==
    [title |-> "The Oracle Speaks",
     description |-> message,
     color |-> "purple",
     thumbnail |-> "https://openweathermap.org/img/wn/" \o weather.icon \o "@2x.png",
     fields |-> << [name |-> "Temperature", value |-> temp_range_summary(weather),
                    inline |-> TRUE],
                   [name |-> "Humidity", value |-> ToString(weather.humidity) \o "%",
                    inline |-> TRUE],
                   [name |-> "Wind", value |-> Format0f(weather.wind_speed_mph) \o " mph",
                    inline |-> TRUE] >>,
     footer |-> "Weather for " \o weather.city \o " " \o BULLET \o " Blessed be your day"]

NOTICE == "The Oracle's vision is clouded. Try again shortly."

(***************************************************************************)
(* A call made by a coroutine is logged when it is issued, with what it    *)
(* carries; its status is "pending" until the awaited call returns         *)
(* ("ok"), raises (the exception's name) or is cancelled.  A call to one   *)
(* of the two services also keeps the response its provider gave.          *)
(***************************************************************************)
Event(op, kind, arg) ==
    [op |-> op, kind |-> kind, arg |-> arg, status |-> "pending", response |-> NoValue]

Issue(rec, pc, ev) == [rec EXCEPT !.pc = pc, !.log = Append(@, ev)]

Complete(rec, status) ==
    [rec EXCEPT !.log = [@ EXCEPT ![Len(@)] = [@ EXCEPT !.status = status]]]

\* The same for a call to a service, with what the service's provider answered.
Answer(rec, status, response) ==
    [rec EXCEPT !.log = [@ EXCEPT ![Len(@)] =
                           [@ EXCEPT !.status = status, !.response = response]]]

(***************************************************************************)
(*                      INTERACTIVE PATH: /weather                         *)
(***************************************************************************)
NewInvocation ==
    [pc |-> "none", respDone |-> FALSE, log |-> <<>>, weather |-> NoValue,
     message |-> NoValue, error |-> "none", handlerCalls |-> 0, escaped |-> "none",
     sendFailureLogged |-> FALSE]

(***************************************************************************)
(* WeatherCog.weather_error: log, then send the notice as a follow-up if   *)
(* the response is done, else as an ephemeral initial response.            *)
(***************************************************************************)
weather_error_swapped(rec, err) ==
    LET r == [rec EXCEPT !.error = err, !.handlerCalls = @ + 1]
    IN  IF ~r.respDone
        THEN Issue(r, "notice_followup", Event("followup.send", "notice", [content |-> NOTICE]))
        ELSE Issue(r, "notice_initial",
                   Event("response.send_message", "notice",
                         [content |-> NOTICE, ephemeral |-> TRUE]))

weather_error_leaky(rec, err) ==
    LET r == [rec EXCEPT !.error = err, !.handlerCalls = @ + 1]
    IN  IF r.respDone
        THEN Issue(r, "notice_followup",
                   Event("followup.send", "notice", [content |-> NOTICE \o " " \o err]))
        ELSE Issue(r, "notice_initial",
                   Event("response.send_message", "notice",
                         [content |-> NOTICE \o " " \o err, ephemeral |-> TRUE]))

weather_error(rec, err) ==
    LET r == [rec EXCEPT !.error = err, !.handlerCalls = @ + 1]
    IN  IF r.respDone
        THEN Issue(r, "notice_followup", Event("followup.send", "notice", [content |-> NOTICE]))
        ELSE Issue(r, "notice_initial",
                   Event("response.send_message", "notice",
                         [content |-> NOTICE, ephemeral |-> TRUE]))

(***************************************************************************)
(* weather_command, line 74: the command is invoked and issues defer().    *)
(* Invocations arrive once the bot is connected and while the cog is       *)
(* loaded.                                                                 *)
(***************************************************************************)
weather_command_fetch_first(i) ==
    /\ phase = "connected"
    /\ unloadCalls = 0
    /\ inv[i].pc = "none"
    /\ \A j \in Invocations : j < i => inv[j].pc # "none"
    /\ inv' = [inv EXCEPT ![i] =
                 Issue(@, "fetch", Event("get_current_weather", "call", NoValue))]
    /\ UNCHANGED <<config, phase, ready, unloadCalls, scheduledVars>>

weather_command(i) ==
    /\ phase = "connected"
    /\ unloadCalls = 0
    /\ inv[i].pc = "none"
    /\ \A j \in Invocations : j < i => inv[j].pc # "none"
    /\ inv' = [inv EXCEPT ![i] =
                 Issue(@, "defer", Event("response.defer", "call", NoValue))]
    /\ UNCHANGED <<config, phase, ready, unloadCalls, scheduledVars>>

(***************************************************************************)
(* A variant that goes on to the fetch when defer() raises.                *)
(***************************************************************************)
weather_command_deferred_anyway(i, outcome) ==
    /\ inv[i].pc = "defer"
    /\ inv' = [inv EXCEPT ![i] =
                 Issue([Complete(@, outcome) EXCEPT !.respDone = (outcome = "ok")], "fetch",
                       Event("get_current_weather", "call", NoValue))]
    /\ UNCHANGED <<config, phase, ready, unloadCalls, scheduledVars>>

(***************************************************************************)
(* defer() returns: the response is done and the fetch is issued (line     *)
(* 75); or it raises, and the command's error handler runs.                *)
(***************************************************************************)
weather_command_deferred(i, outcome) ==
    /\ inv[i].pc = "defer"
    /\ inv' = [inv EXCEPT ![i] =
                 IF outcome = "ok"
                 THEN Issue([Complete(@, "ok") EXCEPT !.respDone = TRUE], "fetch",
                            Event("get_current_weather", "call", NoValue))
                 ELSE weather_error(Complete(@, outcome), outcome)]
    /\ UNCHANGED <<config, phase, ready, unloadCalls, scheduledVars>>

(***************************************************************************)
(* get_current_weather() returns the record and the generation is issued   *)
(* (lines 76-78); or it raises.                                            *)
(***************************************************************************)
weather_command_fetched_shared(i, resp) ==
    /\ inv[i].pc = "fetch"
    /\ LET r == IF tick.weather # NoValue THEN Return(tick.weather)
                ELSE get_current_weather(resp)
       IN  inv' = [inv EXCEPT ![i] =
                     IF r.ok
                     THEN Issue([Answer(@, "ok", resp) EXCEPT !.weather = r.value], "gen",
                                Event("generate_forecast_message", "call",
                                      [weather |-> r.value]))
                     ELSE weather_error(Answer(@, r.error, resp), r.error)]
    /\ UNCHANGED <<config, phase, ready, unloadCalls, scheduledVars>>

weather_command_fetched(i, resp) ==
    /\ inv[i].pc = "fetch"
    /\ LET r == get_current_weather(resp)
       IN  inv' = [inv EXCEPT ![i] =
                     IF r.ok
                     THEN Issue([Answer(@, "ok", resp) EXCEPT !.weather = r.value], "gen",
                                Event("generate_forecast_message", "call",
                                      [weather |-> r.value]))
                     ELSE weather_error(Answer(@, r.error, resp), r.error)]
    /\ UNCHANGED <<config, phase, ready, unloadCalls, scheduledVars>>

(***************************************************************************)
(* generate_forecast_message() returns the text, the embed is built and    *)
(* the follow-up is issued (lines 79-80); or it raises.                    *)
(***************************************************************************)
weather_command_generated_no_followup(i, gresp) ==
    /\ inv[i].pc = "gen"
    /\ LET r == generate_forecast_message(inv[i].weather, gresp)
       IN  inv' = [inv EXCEPT ![i] =
                     IF r.ok
                     THEN [Answer(@, "ok", gresp) EXCEPT !.message = r.value, !.pc = "done"]
                     ELSE weather_error(Answer(@, r.error, gresp), r.error)]
    /\ UNCHANGED <<config, phase, ready, unloadCalls, scheduledVars>>

weather_command_generated(i, gresp) ==
    /\ inv[i].pc = "gen"
    /\ LET r == generate_forecast_message(inv[i].weather, gresp)
       IN  inv' = [inv EXCEPT ![i] =
                     IF r.ok
                     THEN Issue([Answer(@, "ok", gresp) EXCEPT !.message = r.value], "send",
                                Event("followup.send", "embed",
                                      [embed |-> _build_embed(r.value, @.weather)]))
                     ELSE weather_error(Answer(@, r.error, gresp), r.error)]
    /\ UNCHANGED <<config, phase, ready, unloadCalls, scheduledVars>>

(***************************************************************************)
(* followup.send(embed=embed) returns and the command is over; or it       *)
(* raises, and the error handler runs.                                     *)
(***************************************************************************)
weather_command_sent(i, outcome) ==
    /\ inv[i].pc = "send"
    /\ inv' = [inv EXCEPT ![i] =
                 IF outcome = "ok"
                 THEN [Complete(@, "ok") EXCEPT !.pc = "done"]
                 ELSE weather_error(Complete(@, outcome), outcome)]
    /\ UNCHANGED <<config, phase, ready, unloadCalls, scheduledVars>>

(***************************************************************************)
(* A variant that, when the follow-up of the notice raises, tries the      *)
(* notice once more as an initial response.                                *)
(***************************************************************************)
weather_error_sent_retry(i, outcome) ==
    /\ inv[i].pc \in {"notice_followup", "notice_initial"}
    /\ inv' = [inv EXCEPT ![i] =
                 IF outcome = "DiscordException" /\ @.pc = "notice_followup"
                 THEN Issue([Complete(@, outcome) EXCEPT !.sendFailureLogged = TRUE],
                            "notice_initial",
                            Event("response.send_message", "notice",
                                  [content |-> NOTICE, ephemeral |-> TRUE]))
                 ELSE [Complete(@, outcome) EXCEPT
                         !.pc = "done",
                         !.respDone = IF outcome = "ok" THEN TRUE ELSE @,
                         !.sendFailureLogged = (outcome = "DiscordException"),
                         !.escaped = IF outcome = "OtherError" THEN outcome ELSE @]]
    /\ UNCHANGED <<config, phase, ready, unloadCalls, scheduledVars>>

(***************************************************************************)
(* weather_error, lines 95-108: the send of the notice returns; or raises  *)
(* a DiscordException, which is caught and logged (line 108), and the      *)
(* handler returns; or raises another exception, which the except clause   *)
(* does not match and which leaves the handler.                            *)
(***************************************************************************)
weather_error_sent(i, outcome) ==
    /\ inv[i].pc \in {"notice_followup", "notice_initial"}
    /\ inv' = [inv EXCEPT ![i] =
                 [Complete(@, outcome) EXCEPT
                    !.pc = "done",
                    !.respDone = IF outcome = "ok" THEN TRUE ELSE @,
                    !.sendFailureLogged = (outcome = "DiscordException"),
                    !.escaped = IF outcome = "OtherError" THEN outcome ELSE @]]
    /\ UNCHANGED <<config, phase, ready, unloadCalls, scheduledVars>>

(***************************************************************************)
(*                 SCHEDULED PATH: the morning_forecast loop               *)
(*                                                                         *)
(* loopState follows the task that tasks.Loop runs for the loop:           *)
(*   "Idle"       no task (start() not called)                             *)
(*   "BeforeLoop" the task is in before_morning_forecast                   *)
(*   "Waiting"    the task sleeps until nextIteration                      *)
(*   "Running"    the task is inside morning_forecast, at an await         *)
(*   "Cancelled"  the task ended by CancelledError                         *)
(*   "Failed"     the task ended by an exception of morning_forecast       *)
(***************************************************************************)
HoursPerLoop == 24

\* Minutes between two triggers of the loop.
Period == HoursPerLoop * 60

\* Times of day the process may start at: 06:30, 07:00:30 (written 07:01) and
\* 23:30, before and after the default trigger time.
StartTimes == {6 * 60 + 30, 7 * 60 + 1, 23 * 60 + 30}

LiveStates == {"BeforeLoop", "Waiting", "Running"}

NewTick ==
    [pc |-> "none", channel |-> NoValue, log |-> <<>>, weather |-> NoValue,
     message |-> NoValue, error |-> "none", warned |-> FALSE, errorLogged |-> 0]

(***************************************************************************)
(* bot.get_channel(id): None, or the channel of that id, which may be of   *)
(* a type that accepts messages or not.  isinstance(channel, Messageable). *)
(***************************************************************************)
ChannelResolutions ==
    { NoValue }
    \cup { [id |-> settings.discord_channel_id, type |-> t] :
             t \in {"TextChannel", "CategoryChannel"} }

IsMessageable(channel) ==
    /\ channel # NoValue
    /\ channel.type \in {"TextChannel", "Thread", "DMChannel"}

(***************************************************************************)
(* _get_schedule_time and the loop's next trigger: the next occurrence of  *)
(* morning_hour:morning_minute Pacific after time t.  Daylight saving      *)
(* shifts are not modelled: a day has 24 hours.                            *)
(***************************************************************************)
_get_schedule_time == [hour |-> settings.morning_hour, minute |-> settings.morning_minute]

NextTriggerAfter_today(t) ==
    (t \div Period) * Period + _get_schedule_time.hour * 60 + _get_schedule_time.minute

NextTriggerAfter(t) ==
    LET cand == (t \div Period) * Period
                  + _get_schedule_time.hour * 60 + _get_schedule_time.minute
    IN  IF cand > t THEN cand ELSE cand + Period

(***************************************************************************)
(* main, line 59: Settings.from_env() runs before the event loop exists.   *)
(* When it raises, the exception leaves main and the process ends; else    *)
(* main goes on to asyncio.run(run()).                                     *)
(***************************************************************************)
main_fallback ==
    /\ phase = "start"
    /\ config.kwargs = NoValue
    /\ LET r == IF from_env(config.env).ok THEN from_env(config.env)
                ELSE Settings([discord_token |-> "", discord_channel_id |-> 0,
                               openweather_api_key |-> "", anthropic_api_key |-> ""])
       IN  /\ config' = [config EXCEPT !.result = r]
           /\ phase' = IF r.ok THEN "configured" ELSE "config_failed"
    /\ UNCHANGED <<ready, inv, unloadCalls, scheduledVars>>

main ==
    /\ phase = "start"
    /\ config.kwargs = NoValue
    /\ LET r == from_env(config.env)
       IN  /\ config' = [config EXCEPT !.result = r]
           /\ phase' = IF r.ok THEN "configured" ELSE "config_failed"
    /\ UNCHANGED <<ready, inv, unloadCalls, scheduledVars>>

(***************************************************************************)
(* Settings(...) called with a trigger time of the caller's choice, as the *)
(* tests and any other caller of the constructor do; the instance is then  *)
(* handed to setup_bot like the one of main.                               *)
(***************************************************************************)
direct_construction ==
    /\ phase = "start"
    /\ config.kwargs # NoValue
    /\ LET r == Settings(config.kwargs)
       IN  /\ config' = [config EXCEPT !.result = r]
           /\ phase' = IF r.ok THEN "configured" ELSE "config_failed"
    /\ UNCHANGED <<ready, inv, unloadCalls, scheduledVars>>

(***************************************************************************)
(* setup_bot: the bot is built and add_cog runs cog_load, which sets the   *)
(* loop's time and starts its task.  The task begins in before_loop.       *)
(***************************************************************************)
cog_load ==
    /\ loopState = "Idle"
    /\ loopState' = "BeforeLoop"

setup_bot ==
    /\ phase = "configured"
    /\ phase' = "loaded"
    /\ cog_load
    /\ UNCHANGED <<config, ready, inv, cancelRequested, unloadCalls, now, nextIteration,
                   tickNo, tick>>

(***************************************************************************)
(* main.run, line 64: bot.start() logs in and connects; the connection     *)
(* later reports ready.                                                    *)
(***************************************************************************)
bot_start ==
    /\ phase = "loaded"
    /\ phase' = "connected"
    /\ UNCHANGED <<config, ready, inv, unloadCalls, scheduledVars>>

on_ready ==
    /\ phase = "connected"
    /\ ~ready
    /\ ready' = TRUE
    /\ UNCHANGED <<config, phase, inv, unloadCalls, scheduledVars>>

(***************************************************************************)
(* before_morning_forecast: wait_until_ready() returns once the bot is     *)
(* ready; the loop then computes its first trigger and sleeps.             *)
(***************************************************************************)
before_morning_forecast_no_wait ==
    /\ loopState = "BeforeLoop"
    /\ ~cancelRequested
    /\ loopState' = "Waiting"
    /\ nextIteration' = NextTriggerAfter(now)
    /\ UNCHANGED <<config, phase, ready, inv, cancelRequested, unloadCalls, now, tickNo, tick>>

before_morning_forecast ==
    /\ loopState = "BeforeLoop"
    /\ ~cancelRequested
    /\ ready
    /\ loopState' = "Waiting"
    /\ nextIteration' = NextTriggerAfter(now)
    /\ UNCHANGED <<config, phase, ready, inv, cancelRequested, unloadCalls, now, tickNo, tick>>

(***************************************************************************)
(* An exception leaves morning_forecast.  The loop made by tasks.loop      *)
(* (discord.ext.tasks.Loop) calls the coroutine registered with            *)
(* @morning_forecast.error, which here only logs, and then re-raises the   *)
(* exception out of its task: the task ends and the loop fires no more.    *)
(***************************************************************************)
on_morning_forecast_error(t, err) ==
    [Complete(t, err) EXCEPT !.pc = "failed", !.error = err, !.errorLogged = @ + 1]

(***************************************************************************)
(* The timer fires and morning_forecast runs up to its first await (lines  *)
(* 113-120): the channel is resolved; when it is missing or not            *)
(* messageable a warning is logged and the run returns, else the fetch is  *)
(* issued.  The bot's channel cache is filled when the connection becomes  *)
(* ready: get_channel gives None before that.                              *)
(***************************************************************************)
morning_forecast_no_check(res) ==
    /\ loopState = "Waiting"
    /\ ~cancelRequested
    /\ tickNo < MaxTicks
    /\ now' = nextIteration
    /\ nextIteration' = nextIteration + Period
    /\ tickNo' = tickNo + 1
    /\ loopState' = "Running"
    /\ tick' = Issue([NewTick EXCEPT !.channel = res], "fetch",
                     Event("get_current_weather", "call", NoValue))
    /\ UNCHANGED <<config, phase, ready, inv, cancelRequested, unloadCalls>>

(***************************************************************************)
(* A variant that tries a skipped run again an hour later.                 *)
(***************************************************************************)
morning_forecast_retry_soon(res) ==
    /\ loopState = "Waiting"
    /\ ~cancelRequested
    /\ tickNo < MaxTicks
    /\ now' = nextIteration
    /\ tickNo' = tickNo + 1
    /\ LET channel == IF ready THEN res ELSE NoValue
       IN  IF ~IsMessageable(channel)
           THEN /\ tick' = [NewTick EXCEPT !.channel = channel, !.pc = "skipped",
                                           !.warned = TRUE]
                /\ loopState' = "Waiting"
                /\ nextIteration' = nextIteration + 60
           ELSE /\ tick' = Issue([NewTick EXCEPT !.channel = channel], "fetch",
                                 Event("get_current_weather", "call", NoValue))
                /\ loopState' = "Running"
                /\ nextIteration' = nextIteration + Period
    /\ UNCHANGED <<config, phase, ready, inv, cancelRequested, unloadCalls>>

morning_forecast(res) ==
    /\ loopState = "Waiting"
    /\ ~cancelRequested
    /\ tickNo < MaxTicks
    /\ now' = nextIteration
    /\ nextIteration' = nextIteration + Period
    /\ tickNo' = tickNo + 1
    /\ LET channel == IF ready THEN res ELSE NoValue
       IN  IF ~IsMessageable(channel)
           THEN /\ tick' = [NewTick EXCEPT !.channel = channel, !.pc = "skipped",
                                           !.warned = TRUE]
                /\ loopState' = "Waiting"
           ELSE /\ tick' = Issue([NewTick EXCEPT !.channel = channel], "fetch",
                                 Event("get_current_weather", "call", NoValue))
                /\ loopState' = "Running"
    /\ UNCHANGED <<config, phase, ready, inv, cancelRequested, unloadCalls>>

(***************************************************************************)
(* get_current_weather() returns and the generation is issued (lines       *)
(* 121-123); or it raises and the run fails.                               *)
(***************************************************************************)
morning_forecast_fetched_retry(resp) ==
    /\ loopState = "Running"
    /\ ~cancelRequested
    /\ tick.pc = "fetch"
    /\ LET r == get_current_weather(resp)
       IN  IF r.ok
           THEN /\ tick' = Issue([Answer(tick, "ok", resp) EXCEPT !.weather = r.value], "gen",
                                 Event("generate_forecast_message", "call",
                                       [weather |-> r.value]))
                /\ UNCHANGED <<loopState, nextIteration>>
           ELSE IF Len(tick.log) = 1
           THEN /\ tick' = Issue(Answer(tick, r.error, resp), "fetch",
                                 Event("get_current_weather", "call", NoValue))
                /\ UNCHANGED <<loopState, nextIteration>>
           ELSE /\ tick' = on_morning_forecast_error(Answer(tick, r.error, resp), r.error)
                /\ loopState' = "Failed"
                /\ nextIteration' = NoTime
    /\ UNCHANGED <<config, phase, ready, inv, cancelRequested, unloadCalls, now, tickNo>>

(***************************************************************************)
(* A variant that composes from a stock record when the fetch fails.       *)
(***************************************************************************)
morning_forecast_fetched_fallback(resp) ==
    /\ loopState = "Running"
    /\ ~cancelRequested
    /\ tick.pc = "fetch"
    /\ LET r == get_current_weather(resp)
           w == IF r.ok THEN r.value ELSE ParseWeather(BodyA).value
           status == IF r.ok THEN "ok" ELSE r.error
       IN  /\ tick' = Issue([Answer(tick, status, resp) EXCEPT !.weather = w], "gen",
                            Event("generate_forecast_message", "call", [weather |-> w]))
           /\ UNCHANGED <<loopState, nextIteration>>
    /\ UNCHANGED <<config, phase, ready, inv, cancelRequested, unloadCalls, now, tickNo>>

morning_forecast_fetched(resp) ==
    /\ loopState = "Running"
    /\ ~cancelRequested
    /\ tick.pc = "fetch"
    /\ LET r == get_current_weather(resp)
       IN  IF r.ok
           THEN /\ tick' = Issue([Answer(tick, "ok", resp) EXCEPT !.weather = r.value], "gen",
                                 Event("generate_forecast_message", "call",
                                       [weather |-> r.value]))
                /\ UNCHANGED <<loopState, nextIteration>>
           ELSE /\ tick' = on_morning_forecast_error(Answer(tick, r.error, resp), r.error)
                /\ loopState' = "Failed"
                /\ nextIteration' = NoTime
    /\ UNCHANGED <<config, phase, ready, inv, cancelRequested, unloadCalls, now, tickNo>>

(***************************************************************************)
(* generate_forecast_message() returns, the embed is built and             *)
(* channel.send is issued (lines 124-125); or it raises.                   *)
(***************************************************************************)
morning_forecast_generated_twice(gresp) ==
    /\ loopState = "Running"
    /\ ~cancelRequested
    /\ tick.pc = "gen"
    /\ LET r == generate_forecast_message(tick.weather, gresp)
           send == Event("channel.send", "embed",
                         [dest |-> tick.channel,
                          embed |-> _build_embed(r.value, tick.weather)])
       IN  IF r.ok
           THEN /\ tick' = Issue(Complete(Issue([Answer(tick, "ok", gresp) EXCEPT
                                                    !.message = r.value], "send", send),
                                          "ok"),
                                 "send", send)
                /\ UNCHANGED <<loopState, nextIteration>>
           ELSE /\ tick' = on_morning_forecast_error(Answer(tick, r.error, gresp), r.error)
                /\ loopState' = "Failed"
                /\ nextIteration' = NoTime
    /\ UNCHANGED <<config, phase, ready, inv, cancelRequested, unloadCalls, now, tickNo>>

morning_forecast_generated(gresp) ==
    /\ loopState = "Running"
    /\ ~cancelRequested
    /\ tick.pc = "gen"
    /\ LET r == generate_forecast_message(tick.weather, gresp)
       IN  IF r.ok
           THEN /\ tick' = Issue([Answer(tick, "ok", gresp) EXCEPT !.message = r.value], "send",
                                 Event("channel.send", "embed",
                                       [dest |-> tick.channel,
                                        embed |-> _build_embed(r.value, tick.weather)]))
                /\ UNCHANGED <<loopState, nextIteration>>
           ELSE /\ tick' = on_morning_forecast_error(Answer(tick, r.error, gresp), r.error)
                /\ loopState' = "Failed"
                /\ nextIteration' = NoTime
    /\ UNCHANGED <<config, phase, ready, inv, cancelRequested, unloadCalls, now, tickNo>>

(***************************************************************************)
(* channel.send() returns: the run is over and the loop sleeps until the   *)
(* next trigger; or it raises a DiscordException (HTTPException,           *)
(* Forbidden) and the run fails.  The connection-level exceptions that     *)
(* the loop's reconnect logic retries are not drawn.                       *)
(***************************************************************************)
morning_forecast_sent(outcome) ==
    /\ loopState = "Running"
    /\ ~cancelRequested
    /\ tick.pc = "send"
    /\ IF outcome = "ok"
       THEN /\ tick' = [Complete(tick, "ok") EXCEPT !.pc = "done"]
            /\ loopState' = "Waiting"
            /\ UNCHANGED nextIteration
       ELSE /\ tick' = on_morning_forecast_error(tick, outcome)
            /\ loopState' = "Failed"
            /\ nextIteration' = NoTime
    /\ UNCHANGED <<config, phase, ready, inv, cancelRequested, unloadCalls, now, tickNo>>

(***************************************************************************)
(* cog_unload: morning_forecast.cancel(), which cancels the loop's task    *)
(* when there is one that has not ended.  The cog's command goes with it.  *)
(***************************************************************************)
cog_unload_restart ==
    /\ phase \in {"loaded", "connected"}
    /\ unloadCalls < MaxUnloads
    /\ unloadCalls' = unloadCalls + 1
    /\ IF loopState \in LiveStates
       THEN cancelRequested' = TRUE /\ UNCHANGED loopState
       ELSE loopState' = "Waiting" /\ UNCHANGED cancelRequested
    /\ UNCHANGED <<config, phase, ready, inv, now, nextIteration, tickNo, tick>>

cog_unload_stop ==
    /\ phase \in {"loaded", "connected"}
    /\ unloadCalls < MaxUnloads
    /\ unloadCalls' = unloadCalls + 1
    /\ cancelRequested' =
         IF loopState \in {"BeforeLoop", "Waiting"} THEN TRUE ELSE cancelRequested
    /\ UNCHANGED <<config, phase, ready, inv, loopState, now, nextIteration, tickNo, tick>>

cog_unload ==
    /\ phase \in {"loaded", "connected"}
    /\ unloadCalls < MaxUnloads
    /\ unloadCalls' = unloadCalls + 1
    /\ cancelRequested' = IF loopState \in LiveStates THEN TRUE ELSE cancelRequested
    /\ UNCHANGED <<config, phase, ready, inv, loopState, now, nextIteration, tickNo, tick>>

(***************************************************************************)
(* The cancelled task is resumed with CancelledError at the await it was   *)
(* suspended in: a run of morning_forecast in progress ends there.         *)
(***************************************************************************)
morning_forecast_cancelled ==
    /\ cancelRequested
    /\ loopState \in LiveStates
    /\ loopState' = "Cancelled"
    /\ cancelRequested' = FALSE
    /\ nextIteration' = NoTime
    /\ tick' = IF loopState = "Running"
               THEN [Complete(tick, "cancelled") EXCEPT !.pc = "cancelled"]
               ELSE tick
    /\ UNCHANGED <<config, phase, ready, inv, unloadCalls, now, tickNo>>

(***************************************************************************)
(*                            Specification                                *)
(***************************************************************************)
Init ==
    /\ config \in {[env |-> e, kwargs |-> NoValue, result |-> NoValue] : e \in Envs}
    /\ phase = "start"
    /\ ready = FALSE
    /\ inv = [i \in Invocations |-> NewInvocation]
    /\ loopState = "Idle"
    /\ cancelRequested = FALSE
    /\ unloadCalls = 0
    /\ now \in StartTimes
    /\ nextIteration = NoTime
    /\ tickNo = 0
    /\ tick = NewTick

Next ==
    \/ main
    \/ setup_bot
    \/ bot_start
    \/ on_ready
    \/ \E i \in Invocations : weather_command(i)
    \/ \E i \in Invocations, outcome \in DiscordOutcomes : weather_command_deferred(i, outcome)
    \/ \E i \in Invocations, resp \in ProviderResponses : weather_command_fetched(i, resp)
    \/ \E i \in Invocations, gresp \in GenResponses : weather_command_generated(i, gresp)
    \/ \E i \in Invocations, outcome \in DiscordOutcomes : weather_command_sent(i, outcome)
    \/ \E i \in Invocations, outcome \in DiscordOutcomes : weather_error_sent(i, outcome)
    \/ before_morning_forecast
    \/ \E res \in ChannelResolutions : morning_forecast(res)
    \/ \E resp \in ProviderResponses : morning_forecast_fetched(resp)
    \/ \E gresp \in GenResponses : morning_forecast_generated(gresp)
    \/ \E outcome \in {"ok", "DiscordException"} : morning_forecast_sent(outcome)
    \/ cog_unload
    \/ morning_forecast_cancelled

Spec == Init /\ [][Next]_vars

(***************************************************************************)
(* The two paths share no variable: the interactive actions read and       *)
(* write inv only (and read phase and unloadCalls), the scheduled actions  *)
(* never touch inv.  A property of one path is therefore checked under     *)
(* the specification of that path with the start-up it depends on.         *)
(***************************************************************************)
NextInteractive ==
    \/ main
    \/ setup_bot
    \/ bot_start
    \/ \E i \in Invocations : weather_command(i)
    \/ \E i \in Invocations, outcome \in DiscordOutcomes : weather_command_deferred(i, outcome)
    \/ \E i \in Invocations, resp \in ProviderResponses : weather_command_fetched(i, resp)
    \/ \E i \in Invocations, gresp \in GenResponses : weather_command_generated(i, gresp)
    \/ \E i \in Invocations, outcome \in DiscordOutcomes : weather_command_sent(i, outcome)
    \/ \E i \in Invocations, outcome \in DiscordOutcomes : weather_error_sent(i, outcome)

SpecInteractive == Init /\ [][NextInteractive]_vars

NextScheduled ==
    \/ main
    \/ setup_bot
    \/ bot_start
    \/ on_ready
    \/ before_morning_forecast
    \/ \E res \in ChannelResolutions : morning_forecast(res)
    \/ \E resp \in ProviderResponses : morning_forecast_fetched(resp)
    \/ \E gresp \in GenResponses : morning_forecast_generated(gresp)
    \/ \E outcome \in {"ok", "DiscordException"} : morning_forecast_sent(outcome)
    \/ cog_unload
    \/ morning_forecast_cancelled

SpecScheduled == Init /\ [][NextScheduled]_vars

(***************************************************************************)
(* Both paths together, as they run on the one event loop: the steps of    *)
(* the invocations and of the loop's runs interleave at every await.  The  *)
(* process starts at one time of day, the cog is not unloaded, and the     *)
(* providers' answers are drawn from two outcomes per call (a failure, a   *)
(* success; two different records for the fetch).                          *)
(***************************************************************************)
InitConcurrent == Init /\ now = 6 * 60 + 30

ConcurrentProviderResponses ==
    { [kind |-> "http", status |-> 500, body |-> NoValue],
      [kind |-> "http", status |-> 200, body |-> BodyA],
      [kind |-> "http", status |-> 200, body |-> BodyB] }

ConcurrentGenResponses ==
    { [kind |-> "APIError"], [kind |-> "ok", content |-> <<"The stars whisper of clouds.">>] }

NextConcurrent ==
    \/ main
    \/ setup_bot
    \/ bot_start
    \/ on_ready
    \/ \E i \in Invocations : weather_command(i)
    \/ \E i \in Invocations : weather_command_deferred(i, "ok")
    \/ \E i \in Invocations, resp \in ConcurrentProviderResponses :
          weather_command_fetched(i, resp)
    \/ \E i \in Invocations, gresp \in ConcurrentGenResponses :
          weather_command_generated(i, gresp)
    \/ \E i \in Invocations, outcome \in {"ok", "DiscordException"} :
          weather_command_sent(i, outcome)
    \/ \E i \in Invocations, outcome \in {"ok", "DiscordException"} :
          weather_error_sent(i, outcome)
    \/ before_morning_forecast
    \/ \E res \in ChannelResolutions : morning_forecast(res)
    \/ \E resp \in ConcurrentProviderResponses : morning_forecast_fetched(resp)
    \/ \E gresp \in ConcurrentGenResponses : morning_forecast_generated(gresp)
    \/ \E outcome \in {"ok", "DiscordException"} : morning_forecast_sent(outcome)

SpecConcurrent == InitConcurrent /\ [][NextConcurrent]_vars

(***************************************************************************)
(* The /weather command on records of many values: temperatures at and     *)
(* around the .5 ties, below zero and between -0.5 and 0, winds at and     *)
(* around a tie, several humidities and icons.  Every call succeeds, so    *)
(* each invocation builds its payload.                                     *)
(***************************************************************************)
BodyOf(low, high, wind, humidity, icon) ==
    [main |-> [temp |-> JNum(680), feels_like |-> JNum(650), humidity |-> JNum(humidity),
               temp_max |-> JNum(high), temp_min |-> JNum(low)],
     weather |-> <<[description |-> JStr("scattered clouds"), icon |-> JStr(icon)]>>,
     wind |-> [speed |-> JNum(wind)]]

PresentationBodies ==
    { BodyOf(580, 740, 80, 550, "03d"),
      BodyOf(594, 756, 75, 400, "10n"),
      BodyOf(585, 755, 85, 1000, "01d"),
      BodyOf(575, 765, 5, 0, "01n"),
      BodyOf(5, 15, 15, 10, "13d"),
      BodyOf(0, 25, 0, 995, "50d"),
      BodyOf(0 - 4, 4, 25, 557, "13n"),
      BodyOf(0 - 5, 6, 104, 300, "04d"),
      BodyOf(0 - 6, 0 - 4, 96, 450, "04n"),
      BodyOf(0 - 15, 0 - 5, 1000, 620, "09d"),
      BodyOf(0 - 25, 0 - 16, 14, 880, "11d"),
      BodyOf(995, 1005, 995, 90, "02d"),
      BodyOf(15, 35, 35, 505, "02n"),
      BodyOf(0 - 14, 994, 45, 5, "09n"),
      BodyOf(0 - 1005, 0 - 995, 55, 1, "11n") }

PresentationResponses ==
    { [kind |-> "http", status |-> 200, body |-> b] : b \in PresentationBodies }

PresentationTexts ==
    { [kind |-> "ok", content |-> c] :
        c \in { <<"The stars whisper of clouds.">>, <<"">>,
                <<"Line one; line two with  two spaces and a trailing space ">> } }

InitPresentation == Init /\ config.env = GoodEnv /\ now = 6 * 60 + 30

NextPresentation ==
    \/ main
    \/ setup_bot
    \/ bot_start
    \/ \E i \in Invocations : weather_command(i)
    \/ \E i \in Invocations : weather_command_deferred(i, "ok")
    \/ \E i \in Invocations, resp \in PresentationResponses : weather_command_fetched(i, resp)
    \/ \E i \in Invocations, gresp \in PresentationTexts : weather_command_generated(i, gresp)
    \/ \E i \in Invocations : weather_command_sent(i, "ok")

SpecPresentation == InitPresentation /\ [][NextPresentation]_vars

(***************************************************************************)
(* Settings built by its constructor with a trigger time given by the      *)
(* caller, in and out of range, and the cog loaded with the instance up    *)
(* to the arming of the loop.                                              *)
(***************************************************************************)
TriggerHours == {0 - 1, 0, 7, 23, 24}
TriggerMinutes == {0 - 1, 0, 30, 59, 60}

InitSettings ==
    /\ config \in {[env |-> GoodEnv,
                     kwargs |-> [discord_token |-> "tok", discord_channel_id |-> 42,
                                 openweather_api_key |-> "key", anthropic_api_key |-> "key",
                                 morning_hour |-> h, morning_minute |-> m],
                     result |-> NoValue] : h \in TriggerHours, m \in TriggerMinutes}
    /\ phase = "start"
    /\ ready = FALSE
    /\ inv = [i \in Invocations |-> NewInvocation]
    /\ loopState = "Idle"
    /\ cancelRequested = FALSE
    /\ unloadCalls = 0
    /\ now \in StartTimes
    /\ nextIteration = NoTime
    /\ tickNo = 0
    /\ tick = NewTick

NextSettings ==
    \/ direct_construction
    \/ setup_bot
    \/ bot_start
    \/ on_ready
    \/ before_morning_forecast

SpecSettings == InitSettings /\ [][NextSettings]_vars

(***************************************************************************)
(* The process started through main in environments that hold more than    *)
(* the four variables from_env reads: a trigger time, in and out of range, *)
(* a location, both, or another channel id; and in environments that lack  *)
(* a required variable.  The bot then connects and the loop runs.          *)
(***************************************************************************)
EnvWithTrigger ==
    [DISCORD_TOKEN |-> "token", DISCORD_CHANNEL_ID |-> "12345",
     OPENWEATHER_API_KEY |-> "owm-key", ANTHROPIC_API_KEY |-> "claude-key",
     MORNING_HOUR |-> "9", MORNING_MINUTE |-> "30"]

EnvWithBadTrigger ==
    [DISCORD_TOKEN |-> "token", DISCORD_CHANNEL_ID |-> "12345",
     OPENWEATHER_API_KEY |-> "owm-key", ANTHROPIC_API_KEY |-> "claude-key",
     MORNING_HOUR |-> "25", MORNING_MINUTE |-> "not-a-number"]

EnvWithLocation ==
    [DISCORD_TOKEN |-> "token", DISCORD_CHANNEL_ID |-> "42",
     OPENWEATHER_API_KEY |-> "owm-key", ANTHROPIC_API_KEY |-> "claude-key",
     LATITUDE |-> "40.7128", LONGITUDE |-> "-74.0060", CITY_NAME |-> "New York"]

EnvWithAll ==
    [DISCORD_TOKEN |-> "other-token", DISCORD_CHANNEL_ID |-> "55",
     OPENWEATHER_API_KEY |-> "other-owm-key", ANTHROPIC_API_KEY |-> "other-claude-key",
     LATITUDE |-> "40.7128", LONGITUDE |-> "-74.0060", CITY_NAME |-> "New York",
     MORNING_HOUR |-> "23", MORNING_MINUTE |-> "59",
     TZ |-> "America/New_York"]

EnvTriggerNoToken ==
    [DISCORD_CHANNEL_ID |-> "12345",
     OPENWEATHER_API_KEY |-> "owm-key", ANTHROPIC_API_KEY |-> "claude-key",
     MORNING_HOUR |-> "9", MORNING_MINUTE |-> "30"]

StartupEnvs ==
    {GoodEnv, EnvWithTrigger, EnvWithBadTrigger, EnvWithLocation, EnvWithAll,
     EnvTriggerNoToken, EnvBadChannel}

InitStartup ==
    /\ config \in {[env |-> e, kwargs |-> NoValue, result |-> NoValue] : e \in StartupEnvs}
    /\ phase = "start"
    /\ ready = FALSE
    /\ inv = [i \in Invocations |-> NewInvocation]
    /\ loopState = "Idle"
    /\ cancelRequested = FALSE
    /\ unloadCalls = 0
    /\ now \in StartTimes
    /\ nextIteration = NoTime
    /\ tickNo = 0
    /\ tick = NewTick

NextStartup ==
    \/ main
    \/ setup_bot
    \/ bot_start
    \/ on_ready
    \/ before_morning_forecast
    \/ \E res \in ChannelResolutions : morning_forecast(res)
    \/ \E resp \in ConcurrentProviderResponses : morning_forecast_fetched(resp)
    \/ \E gresp \in ConcurrentGenResponses : morning_forecast_generated(gresp)
    \/ \E outcome \in {"ok", "DiscordException"} : morning_forecast_sent(outcome)

SpecStartup == InitStartup /\ [][NextStartup]_vars

(***************************************************************************)
(*                              Properties                                 *)
(***************************************************************************)
\* Positions of the log holding a call of one of the operations ops.
Calls(log, ops) == {k \in 1..Len(log) : log[k].op \in ops}

\* Positions of the log holding a send of the given kind ("embed", "notice").
Sends(log, kind) == {k \in 1..Len(log) : log[k].kind = kind}

\* Some call of ops in the log raised.
Raised(log, ops) ==
    \E k \in Calls(log, ops) : log[k].status \notin {"pending", "ok", "cancelled"}

\* Every call of ops in the log returned, and there is one.
Succeeded(log, ops) ==
    /\ Calls(log, ops) # {}
    /\ \A k \in Calls(log, ops) : log[k].status = "ok"

PipelineOps == {"get_current_weather", "generate_forecast_message"}

(***************************************************************************)
(* C1: in the /weather path the acknowledgment (defer) of an invocation    *)
(* is issued, and has returned, before that invocation's weather fetch     *)
(* and before its text generation: no fetch or generation call of an       *)
(* invocation precedes its acknowledgment.                                 *)
(***************************************************************************)
C1_AckBeforeNetwork ==
    \A i \in Invocations :
        \A k \in Calls(inv[i].log, PipelineOps) :
            \E j \in 1..(k - 1) :
                /\ inv[i].log[j].op = "response.defer"
                /\ inv[i].log[j].status = "ok"

C1_Witness ==
    \E i \in Invocations :
        /\ Calls(inv[i].log, {"get_current_weather"}) # {}
        /\ Calls(inv[i].log, {"generate_forecast_message"}) # {}

(***************************************************************************)
(* C2: for every finished invocation in which the fetch or the generation  *)
(* failed, exactly one generic failure notice was sent, no forecast        *)
(* payload was delivered, and no error left the error handler unhandled.   *)
(***************************************************************************)
C2_PipelineFailureHandled ==
    \A i \in Invocations :
        (inv[i].pc = "done" /\ Raised(inv[i].log, PipelineOps)) =>
            /\ Cardinality(Sends(inv[i].log, "notice")) = 1
            /\ Sends(inv[i].log, "embed") = {}
            /\ inv[i].escaped = "none"

(***************************************************************************)
(* C3: when a stage of a scheduled tick has thrown (and nobody has         *)
(* cancelled the loop), the error was logged and the loop is still armed:  *)
(* it waits for the next trigger, 24 hours after the failed one.           *)
(***************************************************************************)
C3_LoopSurvivesFailedTick ==
    (tick.pc = "failed" /\ unloadCalls = 0) =>
        /\ tick.errorLogged = 1
        /\ loopState = "Waiting"
        /\ nextIteration = now + Period

(***************************************************************************)
(* C4: a scheduled tick whose channel resolves to nothing, or to a         *)
(* destination that is not messageable, calls neither the weather client   *)
(* nor the text generator, sends nothing, and returns without raising:     *)
(* the loop is not failed by it.                                           *)
(***************************************************************************)
C4_SkippedTickDoesNothing ==
    (tickNo > 0 /\ ~IsMessageable(tick.channel)) =>
        /\ tick.pc = "skipped"
        /\ tick.log = <<>>
        /\ tick.warned
        /\ tick.error = "none"
        /\ tick.errorLogged = 0
        /\ loopState # "Failed"

C4_Witness ==
    /\ tickNo > 0
    /\ tick.pc = "skipped"
    /\ tick.channel # NoValue
    /\ tick.channel.type = "CategoryChannel"

(***************************************************************************)
(* C5 (as claimed): for every finished invocation whose acknowledgment,    *)
(* fetch and generation all succeeded, exactly one follow-up delivery was  *)
(* made, carrying the payload built from that run's text and record, and   *)
(* no generic failure notice was sent.                                     *)
(***************************************************************************)
C5_SuccessDeliversOnce ==
    \A i \in Invocations :
        (inv[i].pc = "done"
           /\ Succeeded(inv[i].log, {"response.defer"})
           /\ Succeeded(inv[i].log, {"get_current_weather"})
           /\ Succeeded(inv[i].log, {"generate_forecast_message"})) =>
            /\ Cardinality(Sends(inv[i].log, "embed")) = 1
            /\ \A k \in Sends(inv[i].log, "embed") :
                   /\ inv[i].log[k].op = "followup.send"
                   /\ inv[i].log[k].status = "ok"
                   /\ inv[i].log[k].arg.embed = _build_embed(inv[i].message, inv[i].weather)
            /\ Sends(inv[i].log, "notice") = {}

(***************************************************************************)
(* C5 (amended): for every invocation whose acknowledgment, fetch and      *)
(* generation all succeeded, exactly one follow-up delivery is attempted   *)
(* and it carries the payload built from that run's text and record; no    *)
(* failure notice is sent unless that delivery itself raises, and then     *)
(* exactly one notice is sent, on the follow-up channel.                   *)
(***************************************************************************)
C5_SuccessDeliversOnceUnlessSendFails ==
    \A i \in Invocations :
        (/\ Succeeded(inv[i].log, {"response.defer"})
         /\ Succeeded(inv[i].log, {"get_current_weather"})
         /\ Succeeded(inv[i].log, {"generate_forecast_message"})) =>
            /\ Cardinality(Sends(inv[i].log, "embed")) = 1
            /\ \A k \in Sends(inv[i].log, "embed") :
                   /\ inv[i].log[k].op = "followup.send"
                   /\ inv[i].log[k].arg.embed = _build_embed(inv[i].message, inv[i].weather)
                   /\ inv[i].log[k].status \in {"pending", "ok"} =>
                          Sends(inv[i].log, "notice") = {}
                   /\ inv[i].log[k].status \notin {"pending", "ok"} =>
                          /\ Cardinality(Sends(inv[i].log, "notice")) = 1
                          /\ \A n \in Sends(inv[i].log, "notice") :
                                 inv[i].log[n].op = "followup.send"
            /\ inv[i].pc = "done" =>
                   \A k \in Sends(inv[i].log, "embed") : inv[i].log[k].status # "pending"

C5_Witness ==
    \E i \in Invocations :
        /\ inv[i].pc = "done"
        /\ \E k \in Sends(inv[i].log, "embed") : inv[i].log[k].status = "ok"

(***************************************************************************)
(* C6 (as claimed): on a finished scheduled tick whose channel resolved    *)
(* to a messageable destination and whose fetch and generation succeeded,  *)
(* the weather client and the text generator were each called exactly      *)
(* once and exactly one message, carrying the built payload, was           *)
(* delivered to the resolved channel and to no other destination.          *)
(***************************************************************************)
C6_TickDeliversOnce ==
    (/\ tick.pc \in {"done", "failed"}
     /\ IsMessageable(tick.channel)
     /\ Succeeded(tick.log, {"get_current_weather"})
     /\ Succeeded(tick.log, {"generate_forecast_message"})) =>
        /\ Cardinality(Calls(tick.log, {"get_current_weather"})) = 1
        /\ Cardinality(Calls(tick.log, {"generate_forecast_message"})) = 1
        /\ Cardinality({k \in Sends(tick.log, "embed") : tick.log[k].status = "ok"}) = 1
        /\ \A k \in Sends(tick.log, "embed") :
               /\ tick.log[k].op = "channel.send"
               /\ tick.log[k].arg.dest = tick.channel
               /\ tick.log[k].arg.embed = _build_embed(tick.message, tick.weather)
        /\ Sends(tick.log, "notice") = {}

(***************************************************************************)
(* C6 (amended): on a scheduled tick whose channel resolved to a           *)
(* messageable destination and whose fetch and generation succeeded, the   *)
(* weather client and the text generator are each called exactly once and  *)
(* exactly one delivery, carrying the built payload, is attempted, to the  *)
(* resolved channel (the configured one) and to no other destination; the  *)
(* message is delivered when that send does not raise.                     *)
(***************************************************************************)
C6_TickSendsOnce ==
    (/\ tickNo > 0
     /\ IsMessageable(tick.channel)
     /\ Succeeded(tick.log, {"get_current_weather"})
     /\ Succeeded(tick.log, {"generate_forecast_message"})) =>
        /\ Cardinality(Calls(tick.log, {"get_current_weather"})) = 1
        /\ Cardinality(Calls(tick.log, {"generate_forecast_message"})) = 1
        /\ Cardinality(Sends(tick.log, "embed")) = 1
        /\ \A k \in Sends(tick.log, "embed") :
               /\ tick.log[k].op = "channel.send"
               /\ tick.log[k].arg.dest = tick.channel
               /\ tick.log[k].arg.dest.id = settings.discord_channel_id
               /\ tick.log[k].arg.embed = _build_embed(tick.message, tick.weather)
               /\ tick.pc = "done" <=> tick.log[k].status = "ok"
        /\ Sends(tick.log, "notice") = {}
        /\ Len(tick.log) = 3

C6_Witness ==
    /\ tick.pc = "done"
    /\ \E k \in Sends(tick.log, "embed") : tick.log[k].status = "ok"

(***************************************************************************)
(* C7: the generic failure notice goes to the follow-up channel when the   *)
(* invocation's acknowledgment has completed and to the initial response   *)
(* channel (ephemeral) when it has not, and never to both: an invocation   *)
(* sends at most one notice.                                               *)
(***************************************************************************)
C7_NoticeChannel ==
    \A i \in Invocations :
        /\ Cardinality(Sends(inv[i].log, "notice")) <= 1
        /\ \A k \in Sends(inv[i].log, "notice") :
               IF Succeeded(inv[i].log, {"response.defer"})
               THEN inv[i].log[k].op = "followup.send"
               ELSE /\ inv[i].log[k].op = "response.send_message"
                    /\ inv[i].log[k].arg.ephemeral

C7_Witness ==
    \E i \in Invocations :
        /\ ~Succeeded(inv[i].log, {"response.defer"})
        /\ \E k \in Sends(inv[i].log, "notice") : inv[i].log[k].status = "ok"

(***************************************************************************)
(* C8: no scheduled tick runs before the chat connection has reported      *)
(* ready: while the bot is not ready the loop, although started at cog     *)
(* load (before the bot connects), is not armed, no run of                 *)
(* morning_forecast has started, and nothing was resolved, fetched or      *)
(* sent by the scheduled path.                                             *)
(***************************************************************************)
C8_NoTickBeforeReady ==
    ~ready =>
        /\ tickNo = 0
        /\ tick = NewTick
        /\ loopState \notin {"Waiting", "Running"}
        /\ nextIteration = NoTime

\* The loop has been started by cog_load and waits in before_loop, the bot
\* being connected and not yet ready.
C8_Witness ==
    /\ phase = "connected"
    /\ ~ready
    /\ loopState = "BeforeLoop"

(***************************************************************************)
(* C9 (as claimed): cancelling does not interrupt a tick that is Running:  *)
(* no run of morning_forecast is ever ended by the cancellation.           *)
(***************************************************************************)
C9_CancelDoesNotInterrupt == tick.pc # "cancelled"

(***************************************************************************)
(* C9 (amended): cancelling while a scheduled tick is Running interrupts   *)
(* that tick at the await it is suspended in: once cog_unload has been     *)
(* called the tick issues no further call (its remaining stages never      *)
(* run), the call in flight is abandoned, and no tick starts.              *)
(***************************************************************************)
C9_CancelInterruptsTick ==
    [][unloadCalls > 0 =>
          /\ Len(tick'.log) = Len(tick.log)
          /\ tickNo' = tickNo
          /\ tick'.pc \in {tick.pc, "cancelled"}
          /\ tick'.pc = "cancelled" =>
                 /\ tick.pc \in {"fetch", "gen", "send", "cancelled"}
                 /\ tick'.log[Len(tick'.log)].status = "cancelled"]_vars

C9_Witness ==
    /\ tick.pc = "cancelled"
    /\ loopState = "Cancelled"
    /\ Len(tick.log) = 1
    /\ tick.log[1].op = "get_current_weather"
    /\ tick.log[1].status = "cancelled"

TimeOfDay(t) == [hour |-> (t % Period) \div 60, minute |-> t % 60]

RunUsesOwnData(rec) ==
    /\ \A k \in Calls(rec.log, {"get_current_weather"}) :
          rec.log[k].status # "pending" =>
            LET r == get_current_weather(rec.log[k].response)
            IN  /\ rec.log[k].status = (IF r.ok THEN "ok" ELSE r.error)
                /\ rec.weather = (IF r.ok THEN r.value ELSE NoValue)
                /\ ~r.ok => rec.error = r.error
    /\ \A k \in Calls(rec.log, {"generate_forecast_message"}) :
          /\ rec.log[k].arg.weather = rec.weather
          /\ rec.log[k].status # "pending" =>
                LET r == generate_forecast_message(rec.weather, rec.log[k].response)
                IN  /\ rec.log[k].status = (IF r.ok THEN "ok" ELSE r.error)
                    /\ r.ok => rec.message = r.value
                    /\ ~r.ok => rec.error = r.error
    /\ \A k \in Sends(rec.log, "embed") :
          rec.log[k].arg.embed = _build_embed(rec.message, rec.weather)
    /\ Calls(rec.log, {"get_current_weather"}) = {} => rec.weather = NoValue
    /\ Succeeded(rec.log, {"generate_forecast_message"}) \/ Sends(rec.log, "embed") = {}

\* The state of each path, as far as its values can be compared.
Footprint(rec) == [pc |-> rec.pc, log |-> rec.log, weather |-> rec.weather,
                   error |-> rec.error]

InteractiveState == [i \in Invocations |-> Footprint(inv[i])]

ScheduledState ==
    <<loopState, cancelRequested, now, nextIteration, tickNo, Footprint(tick),
      tick.channel>>

C12_PathsDoNotInterfere ==
    [][/\ ~(InteractiveState' # InteractiveState /\ ScheduledState' # ScheduledState)
       /\ \A i \in Invocations : RunUsesOwnData(inv[i])'
       /\ RunUsesOwnData(tick)'
       /\ \A i \in Invocations :
            /\ inv[i].pc = "fetch" =>
                  ENABLED (\E resp \in ConcurrentProviderResponses : weather_command_fetched(i, resp))
            /\ inv[i].pc = "gen" =>
                  ENABLED (\E gresp \in ConcurrentGenResponses : weather_command_generated(i, gresp))
       /\ (loopState = "Running" /\ tick.pc = "fetch") =>
            ENABLED (\E resp \in ConcurrentProviderResponses : morning_forecast_fetched(resp))
       /\ (loopState = "Running" /\ tick.pc = "gen") =>
            ENABLED (\E gresp \in ConcurrentGenResponses : morning_forecast_generated(gresp))]_vars

\* Both runs are in flight: the invocation's fetch has failed and its notice
\* is on the way, while the run of morning_forecast holds the record of its
\* own fetch and waits for its text.
C12_Witness ==
    /\ loopState = "Running"
    /\ tick.pc = "gen"
    /\ tick.weather = ParseWeather(BodyB).value
    /\ \E i \in Invocations :
          /\ inv[i].pc = "notice_followup"
          /\ inv[i].error = "httpx.HTTPStatusError"

(***************************************************************************)
(* C13: within one run of the pipeline (an invocation of /weather or a run *)
(* of morning_forecast) get_current_weather is called at most once and     *)
(* generate_forecast_message at most once, whether they return or raise    *)
(* (a stage that raised is not called again and nothing is called after    *)
(* it); and a run that holds a weather record got it from a fetch of its   *)
(* own that the provider answered, never from an earlier run.              *)
(***************************************************************************)
StagesAtMostOnce(rec) ==
    /\ Cardinality(Calls(rec.log, {"get_current_weather"})) <= 1
    /\ Cardinality(Calls(rec.log, {"generate_forecast_message"})) <= 1
    /\ \A k \in Calls(rec.log, PipelineOps) :
          rec.log[k].status \notin {"pending", "ok", "cancelled"} =>
            \A l \in (k + 1)..Len(rec.log) : rec.log[l].op \notin PipelineOps
    /\ \A k \in Calls(rec.log, {"generate_forecast_message"}) :
          \E l \in Calls(rec.log, {"get_current_weather"}) : l < k
    /\ rec.weather # NoValue =>
          \E k \in Calls(rec.log, {"get_current_weather"}) :
            /\ rec.log[k].status = "ok"
            /\ rec.log[k].response.kind = "http"
            /\ get_current_weather(rec.log[k].response) = Return(rec.weather)

C13_StagesAtMostOnce ==
    /\ \A i \in Invocations : StagesAtMostOnce(inv[i])
    /\ StagesAtMostOnce(tick)

\* The second run of morning_forecast made a fetch of its own, which failed,
\* and made no other call.
C13_Witness ==
    /\ tickNo = 2
    /\ tick.pc = "failed"
    /\ Len(tick.log) = 1
    /\ tick.log[1].op = "get_current_weather"
    /\ tick.log[1].status = "httpx.HTTPStatusError"

(***************************************************************************)
(* C14: the notice an invocation's user is sent after a failure is the     *)
(* same fixed text whatever exception was raised and whatever stage        *)
(* raised it; the send carries that text (and, for the initial response,   *)
(* the ephemeral flag) and nothing of the error.                           *)
(***************************************************************************)
C14_NoticeTextFixed ==
    \A i \in Invocations :
      \A k \in Sends(inv[i].log, "notice") :
        /\ inv[i].log[k].arg.content = NOTICE
        /\ inv[i].log[k].arg
             \in { [content |-> NOTICE], [content |-> NOTICE, ephemeral |-> TRUE] }
        /\ \A j \in Invocations :
             \A l \in Sends(inv[j].log, "notice") :
               inv[j].log[l].arg.content = inv[i].log[k].arg.content

\* The text generation failed and the notice was delivered.
C14_Witness ==
    \E i \in Invocations :
      /\ inv[i].error = "anthropic.APIError"
      /\ \E k \in Sends(inv[i].log, "notice") : inv[i].log[k].status = "ok"

(***************************************************************************)
(* C15: get_current_weather raises httpx.HTTPStatusError when the provider *)
(* answers with a status outside 200..299 and httpx.RequestError when the  *)
(* request fails in transport; the exception reaches the caller (here the  *)
(* command, whose error handler is given it), no record is returned, and   *)
(* the fetch is not made again.                                            *)
(***************************************************************************)
FetchFailedWith(rec, k, err) ==
    /\ rec.log[k].status = err
    /\ rec.error = err
    /\ rec.weather = NoValue
    /\ Calls(rec.log, {"get_current_weather"}) = {k}
    /\ Calls(rec.log, {"generate_forecast_message"}) = {}

C15_FetchErrorsPropagate ==
    \A i \in Invocations :
      \A k \in Calls(inv[i].log, {"get_current_weather"}) :
        inv[i].log[k].status # "pending" =>
          LET resp == inv[i].log[k].response
          IN  /\ resp.kind = "RequestError" =>
                   /\ FetchFailedWith(inv[i], k, "httpx.RequestError")
                   /\ inv[i].handlerCalls = 1
              /\ (resp.kind = "http" /\ ~(200 <= resp.status /\ resp.status <= 299)) =>
                   /\ FetchFailedWith(inv[i], k, "httpx.HTTPStatusError")
                   /\ inv[i].handlerCalls = 1

\* The provider answered 301 and the invocation ended with the status error.
C15_Witness ==
    \E i \in Invocations :
      /\ inv[i].pc = "done"
      /\ inv[i].error = "httpx.HTTPStatusError"
      /\ \E k \in Calls(inv[i].log, {"get_current_weather"}) :
            /\ inv[i].log[k].response.kind = "http"
            /\ inv[i].log[k].response.status = 301

(***************************************************************************)
(* C16: generate_forecast_message raises (ValueError, "Claude returned an  *)
(* empty response") when the provider's call returns with no content       *)
(* block, and returns no text then; it lets the provider's                 *)
(* anthropic.APIError through as it is; in both cases the exception        *)
(* reaches the caller and the generation is not called again.              *)
(***************************************************************************)
GenerationFailedWith(rec, k, err) ==
    /\ rec.log[k].status = err
    /\ rec.error = err
    /\ Calls(rec.log, {"generate_forecast_message"}) = {k}
    /\ Sends(rec.log, "embed") = {}

C16_GenerationErrors ==
    \A i \in Invocations :
      \A k \in Calls(inv[i].log, {"generate_forecast_message"}) :
        inv[i].log[k].status # "pending" =>
          LET gresp == inv[i].log[k].response
          IN  /\ (gresp.kind = "ok" /\ Len(gresp.content) = 0) =>
                   GenerationFailedWith(inv[i], k, "ValueError")
              /\ gresp.kind = "APIError" =>
                   GenerationFailedWith(inv[i], k, "anthropic.APIError")
              /\ inv[i].log[k].status = "ok" =>
                   /\ Len(gresp.content) > 0
                   /\ inv[i].message = gresp.content[1]

\* The provider returned no content block and the invocation ended with the
\* error of the empty response.
C16_Witness ==
    \E i \in Invocations :
      /\ inv[i].pc = "done"
      /\ inv[i].error = "ValueError"
      /\ \E k \in Calls(inv[i].log, {"generate_forecast_message"}) :
            /\ inv[i].log[k].response.kind = "ok"
            /\ inv[i].log[k].response.content = <<>>

(***************************************************************************)
(* C17, as claimed: when a 2xx response lacks one of the eight required    *)
(* fields or holds one of a wrong JSON type, get_current_weather raises an *)
(* error of its own for the malformed response (one that is none of the    *)
(* errors of the other failures of the pipeline) and returns no record.    *)
(***************************************************************************)
NumericFields == {"temp", "feels_like", "humidity", "temp_max", "temp_min"}
TextFields == {"description", "icon"}

Lacks(body) ==
    \/ "main" \notin DOMAIN body
    \/ "weather" \notin DOMAIN body
    \/ "wind" \notin DOMAIN body
    \/ NumericFields \ DOMAIN body.main # {}
    \/ Len(body.weather) = 0
    \/ TextFields \ DOMAIN body.weather[1] # {}
    \/ "speed" \notin DOMAIN body.wind

WronglyTyped(body) ==
    /\ ~Lacks(body)
    /\ \/ \E f \in NumericFields : body.main[f].t # "num"
       \/ \E f \in TextFields : body.weather[1][f].t # "str"
       \/ body.wind.speed.t # "num"

\* The value is a number or a string that is the literal of one.
Converts(j) ==
    \/ j.t = "num"
    \/ j.t = "str" /\ j.s \in {"68.0", "55"}

Unconvertible(body) ==
    /\ ~Lacks(body)
    /\ \/ \E f \in NumericFields : ~Converts(body.main[f])
       \/ ~Converts(body.wind.speed)

OtherPipelineErrors ==
    {"httpx.HTTPStatusError", "httpx.RequestError", "anthropic.APIError", "ValueError"}

WeatherDataFields ==
    {"city", "temp_f", "feels_like_f", "humidity", "description", "wind_speed_mph",
     "high_f", "low_f", "icon"}

C17_MalformedResponseError ==
    \A i \in Invocations :
      \A k \in Calls(inv[i].log, {"get_current_weather"}) :
        LET e == inv[i].log[k]
        IN  (/\ e.status # "pending"
             /\ e.response.kind = "http"
             /\ 200 <= e.response.status /\ e.response.status <= 299
             /\ Lacks(e.response.body) \/ WronglyTyped(e.response.body)) =>
              /\ e.status \notin {"ok"} \cup OtherPipelineErrors
              /\ inv[i].weather = NoValue

(***************************************************************************)
(* C17, amended: when a 2xx response lacks one of the eight required       *)
(* fields, or holds in a numeric field a value float()/int() cannot        *)
(* convert, get_current_weather raises a built-in exception (KeyError,     *)
(* IndexError, ValueError or TypeError) and returns no record; any other   *)
(* 2xx response, a wrongly typed value that converts included, gives a     *)
(* record with all nine fields.  No record is ever partly populated.       *)
(***************************************************************************)
C17_MalformedRaisesBuiltin ==
    \A i \in Invocations :
      \A k \in Calls(inv[i].log, {"get_current_weather"}) :
        LET e == inv[i].log[k]
        IN  (/\ e.status # "pending"
             /\ e.response.kind = "http"
             /\ 200 <= e.response.status /\ e.response.status <= 299) =>
              /\ Lacks(e.response.body) =>
                   /\ e.status \in {"KeyError", "IndexError", "ValueError", "TypeError"}
                   /\ inv[i].weather = NoValue
              /\ Unconvertible(e.response.body) =>
                   /\ e.status \in {"ValueError", "TypeError"}
                   /\ inv[i].weather = NoValue
              /\ (~Lacks(e.response.body) /\ ~Unconvertible(e.response.body)) =>
                   /\ e.status = "ok"
                   /\ inv[i].weather # NoValue
              /\ inv[i].weather # NoValue => DOMAIN inv[i].weather = WeatherDataFields

\* A response without the icon made the fetch raise KeyError.
C17_Witness ==
    \E i \in Invocations :
      /\ inv[i].error = "KeyError"
      /\ \E k \in Calls(inv[i].log, {"get_current_weather"}) :
            /\ inv[i].log[k].response.kind = "http"
            /\ inv[i].log[k].response.status = 200
            /\ inv[i].log[k].response.body = BodyNoIcon

(***************************************************************************)
(* C18: when the environment lacks one of the four required variables, or  *)
(* DISCORD_CHANNEL_ID is not the literal of an integer, main ends in       *)
(* Settings.from_env (KeyError, ValueError) before setup_bot builds the    *)
(* bot and before cog_load starts the loop: the bot is never built,        *)
(* connected or ready, the loop has no task and no trigger, no run of      *)
(* morning_forecast starts and no /weather invocation is handled.          *)
(***************************************************************************)
RequiredVars ==
    {"DISCORD_TOKEN", "DISCORD_CHANNEL_ID", "OPENWEATHER_API_KEY", "ANTHROPIC_API_KEY"}

BadEnvironment(environ) ==
    \/ RequiredVars \ DOMAIN environ # {}
    \/ \A l \in IntLiterals : l[1] # environ.DISCORD_CHANNEL_ID

C18_StartupFailsFast ==
    BadEnvironment(config.env) =>
      /\ phase \in {"start", "config_failed"}
      /\ phase = "config_failed" =>
            /\ ~config.result.ok
            /\ config.result.error =
                 (IF RequiredVars \ DOMAIN config.env # {} THEN "KeyError" ELSE "ValueError")
      /\ ~ready
      /\ loopState = "Idle"
      /\ nextIteration = NoTime
      /\ tickNo = 0
      /\ \A i \in Invocations : inv[i].pc = "none" /\ inv[i].log = <<>>

\* The channel id is not a number: main has ended with ValueError.
C18_Witness ==
    /\ config.env = EnvBadChannel
    /\ phase = "config_failed"
    /\ config.result.error = "ValueError"

(***************************************************************************)
(* C19: Settings(...) raises ValueError when morning_hour is outside 0..23 *)
(* or morning_minute outside 0..59, and otherwise keeps the values it was  *)
(* given (it never clamps); so every Settings instance, and every trigger  *)
(* time the loop is armed with, has 0 <= hour <= 23 and 0 <= minute <= 59. *)
(***************************************************************************)
InRange(hour, minute) == hour \in 0..23 /\ minute \in 0..59

C19_TriggerTimeInRange ==
    /\ (phase # "start" /\ config.kwargs # NoValue) =>
         IF InRange(config.kwargs.morning_hour, config.kwargs.morning_minute)
         THEN /\ config.result.ok
              /\ config.result.value.morning_hour = config.kwargs.morning_hour
              /\ config.result.value.morning_minute = config.kwargs.morning_minute
         ELSE /\ phase = "config_failed"
              /\ config.result = Raise("ValueError")
    /\ phase \in {"configured", "loaded", "connected"} =>
         InRange(settings.morning_hour, settings.morning_minute)
    /\ loopState # "Idle" =>
         /\ InRange(_get_schedule_time.hour, _get_schedule_time.minute)
         /\ nextIteration # NoTime => TimeOfDay(nextIteration) = _get_schedule_time

\* Settings was called with hour 24 and raised.
C19_Witness ==
    /\ config.kwargs # NoValue
    /\ phase = "config_failed"
    /\ config.kwargs.morning_hour = 24
    /\ config.kwargs.morning_minute = 30

(***************************************************************************)
(* C20: the loop is always in one of the four states Idle, Waiting,        *)
(* Running, Cancelled; it changes state only from Idle to Waiting, from    *)
(* Waiting to Running, from Running to Waiting, or to Cancelled, and       *)
(* never leaves Cancelled.  (The loop has one task, so one run of          *)
(* morning_forecast at a time.)  A loop whose task has started but waits   *)
(* for the bot to be ready is not armed yet and counts as Idle; a run that *)
(* is skipped goes from Waiting through Running to Waiting in one step.    *)
(***************************************************************************)
DispatcherState == IF loopState = "BeforeLoop" THEN "Idle" ELSE loopState

DispatcherTransitions ==
    { <<"Idle", "Waiting">>, <<"Waiting", "Running">>, <<"Running", "Waiting">>,
      <<"Idle", "Cancelled">>, <<"Waiting", "Cancelled">>, <<"Running", "Cancelled">> }

C20_DispatcherStates ==
    [][/\ DispatcherState' \in {"Idle", "Waiting", "Running", "Cancelled"}
       /\ DispatcherState' # DispatcherState =>
            <<DispatcherState, DispatcherState'>> \in DispatcherTransitions]_vars

(***************************************************************************)
(* C21: _build_embed is a function of its two arguments: any two payloads  *)
(* built from the same text and the same record, in whichever run, at      *)
(* whatever time and in whatever state of the bot, are identical, and each *)
(* is still what _build_embed gives for that run's text and record.        *)
(***************************************************************************)
\* The payloads the run has built, each with the arguments it was built from.
Built(rec) ==
    { [message |-> rec.message, weather |-> rec.weather, embed |-> rec.log[k].arg.embed] :
        k \in Sends(rec.log, "embed") }

AllBuilt == Built(tick) \cup UNION { Built(inv[i]) : i \in Invocations }

C21_BuildDeterministic ==
    \A a \in AllBuilt :
      /\ a.embed = _build_embed(a.message, a.weather)
      /\ \A b \in AllBuilt :
           (a.message = b.message /\ a.weather = b.weather) => a.embed = b.embed

\* An invocation and the second run of morning_forecast, a day after the
\* first, have each built a payload from equal texts and equal records.
C21_Witness ==
    /\ tickNo = 2
    /\ Sends(tick.log, "embed") # {}
    /\ \E i \in Invocations :
          /\ Sends(inv[i].log, "embed") # {}
          /\ inv[i].weather = tick.weather
          /\ inv[i].message = tick.message

(***************************************************************************)
(* C22: the payload built from (message, weather) has the message as its   *)
(* body, unchanged; as thumbnail the URL template filled with the record's *)
(* icon; exactly three fields, in the order temperature range, humidity    *)
(* as "<int>%", wind as "<wind rounded to an integer> mph"; and a footer   *)
(* with the record's city.  Humidity 55 and wind 8.0 give "55%" and        *)
(* "8 mph".                                                                *)
(***************************************************************************)
\* The integers nearest to a number kept in tenths (two of them at a tie).
NearestIntegers(t) ==
    { n \in ((t \div 10) - 1)..((t \div 10) + 1) : 10 * n - t \in (0 - 5)..5 }

C22_PayloadLayout ==
    \A i \in Invocations :
      \A k \in Sends(inv[i].log, "embed") :
        LET e == inv[i].log[k].arg.embed
            w == inv[i].weather
        IN  /\ e.description = inv[i].message
            /\ e.thumbnail = "https://openweathermap.org/img/wn/" \o w.icon \o "@2x.png"
            /\ Len(e.fields) = 3
            /\ e.fields[1].name = "Temperature"
            /\ e.fields[1].value = temp_range_summary(w)
            /\ e.fields[2].name = "Humidity"
            /\ e.fields[2].value = ToString(w.humidity) \o "%"
            /\ e.fields[3].name = "Wind"
            /\ \E n \in NearestIntegers(w.wind_speed_mph) :
                 e.fields[3].value = ToString(n) \o " mph"
            /\ e.footer = "Weather for " \o w.city \o " " \o BULLET \o " Blessed be your day"
            /\ (w.humidity = 55 /\ w.wind_speed_mph = 80) =>
                 (e.fields[2].value = "55%" /\ e.fields[3].value = "8 mph")

\* A payload was built from a record with humidity 55 and wind 8.0.
C22_Witness ==
    \E i \in Invocations :
      /\ Sends(inv[i].log, "embed") # {}
      /\ inv[i].weather.humidity = 55
      /\ inv[i].weather.wind_speed_mph = 80
      /\ inv[i].message = "The stars whisper of clouds."

(***************************************************************************)
(* C23: for every weather record the range summary is the low rounded to   *)
(* an integer, the degree sign and F, an en dash between spaces, the high  *)
(* rounded to an integer, the degree sign and F; each of the two is        *)
(* rounded on its own to the nearest integer, a tie going to the even one  *)
(* (the rule of the code's ".0f"), and written as that integer is written. *)
(* (59.4, 75.6) gives 59 and 76.                                           *)
(***************************************************************************)
RoundToInteger(t) ==
    CHOOSE n \in NearestIntegers(t) :
      \A m \in NearestIntegers(t) : m # n => n % 2 = 0

RangeSummaryClaimed(low, high) ==
    ToString(RoundToInteger(low)) \o DEGREE_F \o " " \o EN_DASH \o " "
        \o ToString(RoundToInteger(high)) \o DEGREE_F

C23_RangeSummaryRounds ==
    \A i \in Invocations :
      inv[i].weather # NoValue =>
        /\ temp_range_summary(inv[i].weather)
             = RangeSummaryClaimed(inv[i].weather.low_f, inv[i].weather.high_f)
        /\ \A k \in Sends(inv[i].log, "embed") :
             inv[i].log[k].arg.embed.fields[1].value
               = RangeSummaryClaimed(inv[i].weather.low_f, inv[i].weather.high_f)

(***************************************************************************)
(* C24: in every pipeline run, of a /weather invocation or of a scheduled  *)
(* tick, the stages happen in the order fetch, compose, build, deliver:    *)
(* the generation is called only after the fetch has returned, with        *)
(* exactly the record the fetch returned; the payload sent is built from   *)
(* the text the generation returned and that record, and is sent only      *)
(* after the generation has returned; when the fetch raises the            *)
(* generation is never called and no payload is sent, and when the         *)
(* generation raises no payload is sent.                                   *)
(***************************************************************************)
StagesInOrder(rec) ==
    LET log == rec.log
        fetches == Calls(log, {"get_current_weather"})
        gens == Calls(log, {"generate_forecast_message"})
    IN  /\ \A g \in gens :
              \E f \in fetches :
                  /\ f < g
                  /\ log[f].status = "ok"
                  /\ get_current_weather(log[f].response).ok
                  /\ log[g].arg.weather = get_current_weather(log[f].response).value
        /\ \A s \in Sends(log, "embed") :
              \E g \in gens :
                  /\ g < s
                  /\ log[g].status = "ok"
                  /\ generate_forecast_message(log[g].arg.weather, log[g].response).ok
                  /\ log[s].arg.embed =
                        _build_embed(
                            generate_forecast_message(log[g].arg.weather,
                                                      log[g].response).value,
                            log[g].arg.weather)
        /\ Raised(log, {"get_current_weather"}) =>
              gens = {} /\ Sends(log, "embed") = {}
        /\ Raised(log, {"generate_forecast_message"}) => Sends(log, "embed") = {}

C24_StagesInOrder ==
    /\ \A i \in Invocations : StagesInOrder(inv[i])
    /\ StagesInOrder(tick)

\* A tick has run the four stages to the end, and an invocation's fetch
\* has failed and that invocation is over.
C24_Witness ==
    /\ tick.pc = "done"
    /\ Cardinality(Sends(tick.log, "embed")) = 1
    /\ \E i \in Invocations :
          /\ inv[i].pc = "done"
          /\ Raised(inv[i].log, {"get_current_weather"})

(***************************************************************************)
(* C25: a step that ends a run of morning_forecast with the payload sent,  *)
(* or that skips the run because the channel is missing or not             *)
(* messageable, leaves the loop Waiting, not cancelled, and armed for the  *)
(* next occurrence of the trigger time, one period after the run's own     *)
(* start; and the run that follows such a run starts exactly one period    *)
(* after it, at the trigger time, never earlier.                           *)
(***************************************************************************)
RunEndedWell == {"done", "skipped"}

C25_BackToWaiting ==
    [][/\ (tick'.pc \in RunEndedWell /\ (tickNo' # tickNo \/ tick.pc \notin RunEndedWell)) =>
            /\ loopState' = "Waiting"
            /\ ~cancelRequested'
            /\ nextIteration' = now' + Period
            /\ TimeOfDay(nextIteration') = _get_schedule_time
       /\ (tickNo' > tickNo /\ tick.pc \in RunEndedWell) =>
            /\ now' = now + Period
            /\ TimeOfDay(now') = _get_schedule_time]_vars

\* A second run came after the first had ended well, and was skipped: the
\* loop waits for the third.
C25_Witness ==
    /\ tickNo = 2
    /\ tick.pc = "skipped"
    /\ tick.warned
    /\ loopState = "Waiting"
    /\ nextIteration = now + Period

(***************************************************************************)
(* C26: when a run of morning_forecast fails in get_current_weather or in  *)
(* generate_forecast_message, nothing is sent to the channel for that run  *)
(* (no payload, no other message, no notice), and the only effect of the   *)
(* failed run is one log entry: the loop is as any other run leaves it,    *)
(* waiting for the trigger one period later unless it is cancelled.        *)
(***************************************************************************)
TickFailedInPipeline == tick.pc = "failed" /\ Raised(tick.log, PipelineOps)

NothingSentForTick ==
    /\ Sends(tick.log, "embed") = {}
    /\ Sends(tick.log, "notice") = {}
    /\ Calls(tick.log, {"channel.send", "followup.send", "response.send_message"}) = {}

C26_FailedTickOnlyLogs ==
    TickFailedInPipeline =>
        /\ NothingSentForTick
        /\ tick.errorLogged = 1
        /\ \/ loopState = "Waiting" /\ nextIteration = now + Period
           \/ loopState = "Cancelled"

(***************************************************************************)
(* C27: when the defer() of an invocation raises, that invocation calls    *)
(* neither get_current_weather nor generate_forecast_message, sends no     *)
(* payload, and the one message it attempts is the generic failure notice, *)
(* as an ephemeral initial response (response.send_message), never as a    *)
(* follow-up.                                                              *)
(***************************************************************************)
DeferFailed(rec) ==
    \E d \in Calls(rec.log, {"response.defer"}) :
        rec.log[d].status \notin {"pending", "ok"}

C27_DeferFailureOnlyNotice ==
    \A i \in Invocations :
        DeferFailed(inv[i]) =>
            LET log == inv[i].log
            IN  /\ Calls(log, PipelineOps) = {}
                /\ Sends(log, "embed") = {}
                /\ Calls(log, {"followup.send"}) = {}
                /\ Len(log) = 2
                /\ log[1].op = "response.defer"
                /\ log[2].op = "response.send_message"
                /\ log[2].kind = "notice"
                /\ log[2].arg = [content |-> NOTICE, ephemeral |-> TRUE]
                /\ inv[i].weather = NoValue
                /\ inv[i].handlerCalls = 1

\* defer() raised, the notice went out as the initial response and the
\* invocation is over.
C27_Witness ==
    \E i \in Invocations :
        /\ DeferFailed(inv[i])
        /\ inv[i].pc = "done"
        /\ \E k \in Sends(inv[i].log, "notice") : inv[i].log[k].status = "ok"

(***************************************************************************)
(* C28: when the send of the generic failure notice raises a               *)
(* discord.DiscordException, weather_error catches it, logs it and         *)
(* returns: the invocation is over, no exception has left the handler,     *)
(* the failure was logged, the notice was attempted once and on one        *)
(* channel only, and nothing was attempted after it.                       *)
(***************************************************************************)
C28_NoticeFailureSwallowed ==
    \A i \in Invocations :
        \A k \in Sends(inv[i].log, "notice") :
            inv[i].log[k].status = "DiscordException" =>
                /\ inv[i].pc = "done"
                /\ inv[i].escaped = "none"
                /\ inv[i].sendFailureLogged
                /\ inv[i].handlerCalls = 1
                /\ Sends(inv[i].log, "notice") = {k}
                /\ k = Len(inv[i].log)

\* The follow-up that carried the notice raised a DiscordException after a
\* failed fetch, and the handler returned.
C28_Witness ==
    \E i \in Invocations :
        /\ Raised(inv[i].log, {"get_current_weather"})
        /\ \E k \in Sends(inv[i].log, "notice") :
              /\ inv[i].log[k].op = "followup.send"
              /\ inv[i].log[k].status = "DiscordException"
        /\ inv[i].pc = "done"

(***************************************************************************)
(* C29: Settings.from_env takes the four required values from the          *)
(* environment and nothing else: its result is the one it gives for the    *)
(* environment cut down to those four variables; the four fields hold      *)
(* their values (the channel id as the integer of its literal), and the    *)
(* location and the trigger time are the defaults (37.3382, -121.8863,     *)
(* "San Jose", 7, 0) whatever else the environment holds.  The loop of a   *)
(* bot started through main is therefore armed for 07:00 Pacific: every    *)
(* iteration it waits for, and every run it starts, is at 07:00.           *)
(***************************************************************************)
RequiredOnly(environ) == [k \in RequiredVars \cap DOMAIN environ |-> environ[k]]

C29_FromEnvUsesDefaults ==
    /\ (config.kwargs = NoValue /\ phase # "start") =>
          /\ config.result.ok = from_env(RequiredOnly(config.env)).ok
          /\ config.result.ok =>
                LET s == config.result.value
                IN  /\ s = from_env(RequiredOnly(config.env)).value
                    /\ s.discord_token = config.env.DISCORD_TOKEN
                    /\ PyIntOfStr(config.env.DISCORD_CHANNEL_ID) =
                          Return(s.discord_channel_id)
                    /\ s.openweather_api_key = config.env.OPENWEATHER_API_KEY
                    /\ s.anthropic_api_key = config.env.ANTHROPIC_API_KEY
                    /\ s.latitude = 373382
                    /\ s.longitude = 0 - 1218863
                    /\ s.city_name = "San Jose"
                    /\ s.morning_hour = 7
                    /\ s.morning_minute = 0
    /\ (config.kwargs = NoValue /\ nextIteration # NoTime) =>
          TimeOfDay(nextIteration) = [hour |-> 7, minute |-> 0]
    /\ (config.kwargs = NoValue /\ tickNo > 0) =>
          TimeOfDay(now) = [hour |-> 7, minute |-> 0]

\* The environment asks for another trigger time and another location; the
\* first run came at 07:00 and the loop waits for the next 07:00.
C29_Witness ==
    /\ {"MORNING_HOUR", "MORNING_MINUTE", "LATITUDE", "CITY_NAME"} \subseteq DOMAIN config.env
    /\ config.env.MORNING_HOUR = "23"
    /\ tickNo = 1
    /\ loopState = "Waiting"
    /\ TimeOfDay(now) = [hour |-> 7, minute |-> 0]
    /\ TimeOfDay(nextIteration) = [hour |-> 7, minute |-> 0]

=============================================================================
